---- MODULE Spec2Model ----
(***************************************************************************)
(* State-machine model of the spatial audio engine of ot0527/asmr-app:     *)
(* SpatialAudioEngine (features/audio/SpatialAudioEngine.ts) and its       *)
(* AudioMixer (features/audio/AudioMixer.ts), driven by facade calls.      *)
(*                                                                         *)
(* Web Audio objects are modelled as pools of node records (contexts,      *)
(* sources, gains, panners, filters); a reference is an index into its     *)
(* pool and 0 is null.  Numbers are exact fixed-point integers:            *)
(*   gain      in units of 1/GainDen      (GainDen = 100*100*10*820)       *)
(*   rate      in units of 1/RateDen      (RateDen = 100*700)              *)
(*   position  in units of 1/10                                            *)
(*   time constants of gain/rate ramps and scheduling delays in ms         *)
(*   time constants of panner ramps in units of 1/TauDen s                 *)
(***************************************************************************)
EXTENDS Integers, Sequences, FiniteSets, TLC

\* ------------------------------------------------------------------ bounds

\* At most this many facade calls are made in one behaviour.
MaxCalls == 3

\* At most this many values are drawn from one random generator.
MaxDraws == 3

\* At most this many buffers are rendered one after another.
MaxRenders == 3

\* At most this many calls of ExportManager.decodeToAudioBuffer are made in
\* one behaviour.
MaxDecodes == 3

\* At most this many calls of Recorder.start, stop, cancel and dispose are
\* made in one behaviour.
MaxRecorderCalls == 4

\* Stroke speeds given to the pure functions run from -70 px/s to this many
\* steps of 70 px/s.
MaxSpeedSteps == 14

\* ------------------------------------------------------------- fixed point

GainDen == 82000000
RateDen == 70000
TauDen == 700000

\* ------------------------------------------------------------------ inputs

\* The identity of an AudioBuffer object: the n-th buffer rendered for a sound
\* id, or the n-th buffer decoded outside the engine (id "decoded").
Buffer(id, n) == [id |-> id, n |-> n]
\* No buffer: an undefined audioBuffer, an absent cache entry.
NoBuffer == Buffer("", 0)

\* SoundDefinition values handed to the facade.  defaultGain is in 1/100, the
\* duration in ms.
WhisperSoft ==
    [id |-> "whisper-soft", category |-> "whisper", defaultGain |-> 36,
     defaultDurationSeconds |-> 1800, loop |-> FALSE, seed |-> 11,
     audioBuffer |-> NoBuffer]
ScratchGentle ==
    [id |-> "scratch-gentle", category |-> "scratching", defaultGain |-> 34,
     defaultDurationSeconds |-> 720, loop |-> FALSE, seed |-> 31,
     audioBuffer |-> NoBuffer]
AmbientRain ==
    [id |-> "ambient-rain", category |-> "ambient", defaultGain |-> 27,
     defaultDurationSeconds |-> 8000, loop |-> TRUE, seed |-> 71,
     audioBuffer |-> NoBuffer]
\* A user sound as App.toUserSoundDefinition builds it .
UserSound ==
    [id |-> "user-1", category |-> "user", defaultGain |-> 42,
     defaultDurationSeconds |-> 800, loop |-> FALSE, seed |-> 13,
     audioBuffer |-> Buffer("decoded", 1)]
\* A descriptor that reuses the id of a synthesized sound but carries a buffer.
WhisperSample ==
    [id |-> "whisper-soft", category |-> "user", defaultGain |-> 42,
     defaultDurationSeconds |-> 900, loop |-> FALSE, seed |-> 11,
     audioBuffer |-> Buffer("decoded", 2)]
\* A descriptor without buffer whose duration is not positive.
ZeroDuration ==
    [id |-> "zero-duration", category |-> "water", defaultGain |-> 30,
     defaultDurationSeconds |-> 0, loop |-> FALSE, seed |-> 5,
     audioBuffer |-> NoBuffer]

\* The null passed to setAmbientTrack in place of a SoundDefinition.
NullSound ==
    [id |-> "null", category |-> "null", defaultGain |-> 0,
     defaultDurationSeconds |-> 0, loop |-> FALSE, seed |-> 0,
     audioBuffer |-> NoBuffer]

Sounds ==
    {WhisperSoft, ScratchGentle, AmbientRain, UserSound, WhisperSample,
     ZeroDuration}

SoundIds == {s.id : s \in Sounds}

\* The sounds given to setAmbientTrack.
AmbientSounds == {NullSound, AmbientRain, WhisperSoft}

\* Requested ambient gains, in 1/100 (inside and above [0, 1.2]).
AmbientGains == {33, 150}

\* Requested master gains, in 1/100 (above 1.5).
MasterGains == {200}

\* PlaybackRequest values: position in 1/10, intensity in 1/100, speed px/s.
MkRequest(s, x, y, z, i, g, v) ==
    [sound |-> s, position |-> [x |-> x, y |-> y, z |-> z], intensity |-> i,
     gesture |-> g, strokeSpeed |-> v]

StrokeRequests ==
    {MkRequest(ScratchGentle, -30, 20, 26, 85, "drag", 700),
     MkRequest(WhisperSoft, 5, 0, 2, 85, "drag", 420),
     MkRequest(WhisperSample, -8, 3, 1, 85, "tap", 1200)}

PlayRequests ==
    {MkRequest(WhisperSoft, -8, 0, 1, 100, "tap", 0),
     MkRequest(UserSound, 30, -20, 0, 100, "tap", 0),
     MkRequest(ZeroDuration, 5, 0, 2, 100, "tap", 0)}

\* The state a freshly constructed AudioContext may be in (autoplay policy).
NewContextStates == {"suspended", "running"}

\* ------------------------------------------------------------------- state

VARIABLES
    audioContext,         \* SpatialAudioEngine.audioContext (0 = null)
    masterGainNode,       \* SpatialAudioEngine.masterGainNode (0 = null)
    mixerNode,            \* AudioMixer.masterGainNode (0 = null)
    bufferCache,          \* SpatialAudioEngine.bufferCache (NoBuffer = absent)
    activeStrokeSession,  \* SpatialAudioEngine.activeStrokeSession
    activeBgmSession,     \* SpatialAudioEngine.activeBgmSession
    contexts,             \* every AudioContext constructed so far
    sources,              \* every AudioBufferSourceNode created so far
    gains,                \* every GainNode created so far
    panners,              \* every PannerNode created so far
    filters,              \* every BiquadFilterNode created so far
    synthCalls,           \* per sound id: calls of renderSynthBuffer so far
    cacheReads,           \* sound ids the last call gave to bufferCache.get
    lastCall,             \* the facade call that produced this state
    calls,                \* facade calls made so far
    probe                 \* the last call of a pure function, with its result

vars ==
    <<audioContext, masterGainNode, mixerNode, bufferCache,
      activeStrokeSession, activeBgmSession, contexts, sources, gains,
      panners, filters, synthCalls, cacheReads, lastCall, calls, probe>>

\* No pure function has been called.
NoProbe == [fn |-> "none"]

\* The absent (null) stroke and ambient sessions.
NoStroke == [soundId |-> "", sourceNode |-> 0, gainNode |-> 0, pannerNode |-> 0]
NoBgm == [soundId |-> "", sourceNode |-> 0, gainNode |-> 0, filterNode |-> 0]

\* No outgoing connection / a connection to node id of pool kind.
NoOut == [kind |-> "none", id |-> 0]
Out(kind, id) == [kind |-> kind, id |-> id]

\* The engine and its Web Audio environment as one value at the start of a
\* facade call, so that a facade method is an operator from state to state.
Engine ==
    [audioContext |-> audioContext, masterGainNode |-> masterGainNode,
     mixerNode |-> mixerNode, bufferCache |-> bufferCache,
     activeStrokeSession |-> activeStrokeSession,
     activeBgmSession |-> activeBgmSession, contexts |-> contexts,
     sources |-> sources, gains |-> gains, panners |-> panners,
     filters |-> filters, synthCalls |-> synthCalls, cacheReads |-> {}]

\* The state right after `new SpatialAudioEngine()`.
NewEngine ==
    [audioContext |-> 0, masterGainNode |-> 0, mixerNode |-> 0,
     bufferCache |-> [i \in SoundIds |-> NoBuffer],
     activeStrokeSession |-> NoStroke,
     activeBgmSession |-> NoBgm, contexts |-> <<>>, sources |-> <<>>,
     gains |-> <<>>, panners |-> <<>>, filters |-> <<>>,
     synthCalls |-> [i \in SoundIds |-> 0], cacheReads |-> {}]

\* ------------------------------------------------------------ pure helpers

Min2(a, b) == IF a < b THEN a ELSE b
Max2(a, b) == IF a > b THEN a ELSE b

\* A clamp without its lower bound.
clampUpperOnly(value, min, max) == Min2(value, max)

clamp(value, min, max) == Min2(Max2(value, min), max)

\* A computeGain that scales every gesture as a drag.
computeGainAlwaysDrag(baseGain, intensity, gesture, strokeSpeed) ==
    clamp(baseGain * intensity * 7 * clamp(492 + strokeSpeed, 492, 1189),
          820000, 98400000)

\* computeGain, in 1/GainDen: baseGain and intensity in 1/100, the gesture
\* scale in 1/10 and the speed scale in 1/820.
computeGain(baseGain, intensity, gesture, strokeSpeed) ==
    LET gestureScale == IF gesture = "drag" THEN 7 ELSE 10
        speedScale == IF gesture = "drag"
                        THEN clamp(492 + strokeSpeed, 492, 1189)
                        ELSE 820
    IN  clamp(baseGain * intensity * gestureScale * speedScale,
              820000, 98400000)

\* A computePlaybackRate without the branch of the water category.
computePlaybackRateWithoutWater(category, gesture, strokeSpeed) ==
    IF gesture = "drag"
      THEN LET speedTerm == clamp(strokeSpeed, 0, 910)
           IN  IF category = "ear_cleaning" THEN 57400 + speedTerm * 22
               ELSE 63000 + speedTerm * 22
      ELSE IF category = "tapping" THEN 75600 ELSE 70000

\* computePlaybackRate, in 1/RateDen; the speed term is in 1/700.
computePlaybackRate(category, gesture, strokeSpeed) ==
    IF gesture = "drag"
      THEN LET speedTerm == clamp(strokeSpeed, 0, 910)
           IN  IF category = "ear_cleaning" THEN 57400 + speedTerm * 22
               ELSE IF category = "water" THEN 61600 + speedTerm * 20
               ELSE 63000 + speedTerm * 22
      ELSE IF category = "tapping" THEN 75600 ELSE 70000

\* A computePositionSmoothing that does not clamp the normalized speed.
computePositionSmoothingUnnormalized(strokeSpeed) ==
    clamp(50400 - strokeSpeed * 40, 12600, 50400)

\* computePositionSmoothing, in 1/TauDen s; normalized is in 1/700.
computePositionSmoothing(strokeSpeed) ==
    LET normalized == clamp(strokeSpeed, 0, 910)
    IN  clamp(50400 - normalized * 40, 12600, 50400)

\* ------------------------------------------------------------- createRandom

\* An unsigned 32-bit integer is kept as its two 16-bit halves, hi * 2^16 + lo,
\* since 2^32 - 1 and the product 1664525 * state exceed the range of the
\* model checker's integers.  1664525 = 25 * 2^16 + 26125 and
\* 1013904223 = 15470 * 2^16 + 62303.

\* seed >>> 0.
ToUint32(seed) == [hi |-> (seed \div 65536) % 65536, lo |-> seed % 65536]

\* createRandom(seed): the closure it returns, which is its captured state.
createRandom(seed) == [state |-> ToUint32(seed)]

\* A generator that multiplies without adding the increment.
randomWithoutIncrement(generator) ==
    LET low == 26125 * generator.state.lo
        high == 26125 * generator.state.hi + 25 * generator.state.lo
                  + low \div 65536
        state == [hi |-> high % 65536, lo |-> low % 65536]
    IN  [generator |-> [state |-> state], value |-> state]

\* One call of the closure: state = (1664525 * state + 1013904223) >>> 0,
\* and the value state / 4294967296, kept as its numerator.
random(generator) ==
    LET low == 26125 * generator.state.lo + 62303
        high == 26125 * generator.state.hi + 25 * generator.state.lo
                  + 15470 + low \div 65536
        state == [hi |-> high % 65536, lo |-> low % 65536]
    IN  [generator |-> [state |-> state], value |-> state]

\* ----------------------------------------------------------------- synthesis

\* A dispatch that sends the user category to the tap generator.
GeneratorUserAsTap(category) ==
    CASE category = "whisper" -> "renderWhisperBuffer"
      [] category = "tapping" -> "renderTapBuffer"
      [] category = "scratching" -> "renderScratchBuffer"
      [] category = "brushing" -> "renderBrushBuffer"
      [] category = "water" -> "renderWaterBuffer"
      [] category = "ear_cleaning" -> "renderEarCleaningBuffer"
      [] category = "ambient" -> "renderAmbientBuffer"
      [] category = "user" -> "renderTapBuffer"
      [] OTHER -> "none"

\* The generator renderSynthBuffer dispatches a category to ("none": it
\* throws).
Generator(category) ==
    CASE category = "whisper" -> "renderWhisperBuffer"
      [] category = "tapping" -> "renderTapBuffer"
      [] category = "scratching" -> "renderScratchBuffer"
      [] category = "brushing" -> "renderBrushBuffer"
      [] category = "water" -> "renderWaterBuffer"
      [] category = "ear_cleaning" -> "renderEarCleaningBuffer"
      [] category = "ambient" -> "renderAmbientBuffer"
      [] category = "user" -> "renderWhisperBuffer"
      [] OTHER -> "none"

\* sound.id.includes(keyword), for the ids given to the engine.
includes(id, keyword) ==
    \/ id = "ambient-rain" /\ keyword = "rain"
    \/ id = "ambient-fire" /\ keyword = "fire"
    \/ id = "ambient-forest" /\ keyword = "forest"
    \/ id = "ambient-night" /\ keyword = "night"

\* What renderAmbientBuffer reads of the id, and the values it draws for one
\* sample: one, and one more for each of rain and fire.
Texture(sound) ==
    IF sound.category = "ambient"
      THEN {k \in {"rain", "fire", "forest", "night"} : includes(sound.id, k)}
      ELSE {}
DrawsPerSample(sound) ==
    1 + Cardinality(Texture(sound) \cap {"rain", "fire"})

\* createBuffer: Math.floor(context.sampleRate * durationSeconds) frames, the
\* duration being in ms.
frameCount(sampleRate, durationSeconds) ==
    (sampleRate * durationSeconds) \div 1000

\* n calls of a generator: it afterwards and the values in order.
RECURSIVE Draw(_, _)
Draw(generator, n) ==
    IF n = 0
      THEN [generator |-> generator, values |-> <<>>]
      ELSE LET r == random(generator)
               rest == Draw(r.generator, n - 1)
           IN  [generator |-> rest.generator,
                values |-> <<r.value>> \o rest.values]

\* The loop of a generator from sample index on: for each sample the values
\* drawn for it.
RECURSIVE Noise(_, _, _, _)
Noise(generator, index, length, draws) ==
    IF index >= length
      THEN <<>>
      ELSE LET d == Draw(generator, draws)
           IN  <<d.values>> \o Noise(d.generator, index + 1, length, draws)

\* Channel data whose samples read the whole id of the descriptor.
channelDataOfId(sampleRate, sound) ==
    LET length == frameCount(sampleRate, sound.defaultDurationSeconds)
        noise == Noise(createRandom(sound.seed), 0, length,
                       DrawsPerSample(sound))
    IN  [i \in 1..length |->
            [formula |-> Generator(sound.category), index |-> i - 1,
             length |-> length, sampleRate |-> sampleRate,
             texture |-> {sound.id}, noise |-> noise[i]]]

\* The channel data of the buffer renderSynthBuffer returns.  A sample is
\* written as what its expression reads: the generator's formula, the index,
\* the length (progress and fade), the sample rate (time; the whisper formula
\* has none), the keywords of the id (ambient) and the values drawn from a
\* generator created from the seed.
channelData(sampleRate, sound) ==
    LET length == frameCount(sampleRate, sound.defaultDurationSeconds)
        noise == Noise(createRandom(sound.seed), 0, length,
                       DrawsPerSample(sound))
        formula == Generator(sound.category)
    IN  [i \in 1..length |->
            [formula |-> formula, index |-> i - 1, length |-> length,
             sampleRate |-> IF formula = "renderWhisperBuffer"
                              THEN 0 ELSE sampleRate,
             texture |-> Texture(sound), noise |-> noise[i]]]

\* ---------------------------------------------------------------- positioning

\* AUDIO_SCALE, 1.35, in 1/100.
AUDIO_SCALE == 135

\* Vector3.sub, Quaternion.invert (the conjugate, for a unit quaternion) and
\* Vector3.applyQuaternion, as touchToAudioPosition calls them.
sub(a, b) == [x |-> a.x - b.x, y |-> a.y - b.y, z |-> a.z - b.z]
invert(q) == [x |-> -q.x, y |-> -q.y, z |-> -q.z, w |-> q.w]
applyQuaternion(v, q) ==
    LET tx == 2 * (q.y * v.z - q.z * v.y)
        ty == 2 * (q.z * v.x - q.x * v.z)
        tz == 2 * (q.x * v.y - q.y * v.x)
    IN  [x |-> v.x + q.w * tx + q.y * tz - q.z * ty,
         y |-> v.y + q.w * ty + q.z * tx - q.x * tz,
         z |-> v.z + q.w * tz + q.x * ty - q.y * tx]

\* A touchToAudioPosition that keeps the sign of x.
touchToAudioPositionUnmirrored(intersectPoint, headCenter, headQuaternion) ==
    LET relativeLocal == applyQuaternion(sub(intersectPoint, headCenter),
                                         invert(headQuaternion))
    IN  [x |-> relativeLocal.x * AUDIO_SCALE,
         y |-> relativeLocal.y * AUDIO_SCALE,
         z |-> relativeLocal.z * AUDIO_SCALE]

\* touchToAudioPosition: the hit point relative to the head centre, in the
\* head's frame, scaled and mirrored in x.  Points are in 1/100 and the
\* result in 1/10,000.
touchToAudioPosition(intersectPoint, headCenter, headQuaternion) ==
    LET relativeWorld == sub(intersectPoint, headCenter)
        inverseHeadRotation == invert(headQuaternion)
        relativeLocal == applyQuaternion(relativeWorld, inverseHeadRotation)
    IN  [x |-> -relativeLocal.x * AUDIO_SCALE,
         y |-> relativeLocal.y * AUDIO_SCALE,
         z |-> relativeLocal.z * AUDIO_SCALE]

\* A mapLocalPointToRegion that looks at the height before the ears.
mapLocalPointToRegionTopFirst(localPoint) ==
    IF localPoint.y > 64 THEN "top"
    ELSE IF localPoint.x < -80 THEN "ear_left"
    ELSE IF localPoint.x > 80 THEN "ear_right"
    ELSE IF localPoint.z < -56 THEN "back"
    ELSE IF localPoint.z > 52 THEN "forehead"
    ELSE "head_core"

\* mapLocalPointToRegion: the region of a head-local point, in 1/100; the
\* tests are made in the order of the source, the ears first.
mapLocalPointToRegion(localPoint) ==
    IF localPoint.x < -80 THEN "ear_left"
    ELSE IF localPoint.x > 80 THEN "ear_right"
    ELSE IF localPoint.y > 64 THEN "top"
    ELSE IF localPoint.z < -56 THEN "back"
    ELSE IF localPoint.z > 52 THEN "forehead"
    ELSE "head_core"

\* ----------------------------------------------------- Web Audio node pools

\* source.onended is unset, or the closure endStroke/stopAmbientTrack installs,
\* which disconnects the source and the two captured nodes of its session.
NoHandler == [kind |-> "none", gainNode |-> 0, otherNode |-> 0]
Handler(kind, gainNode, otherNode) ==
    [kind |-> kind, gainNode |-> gainNode, otherNode |-> otherNode]

\* context.createPanner(): a PannerNode with the Web Audio defaults.
createPanner(context) ==
    [ctx |-> context, panningModel |-> "equalpower",
     distanceModel |-> "inverse", refDistance |-> 1, maxDistance |-> 10000,
     rolloffFactor |-> 1, target |-> [x |-> 0, y |-> 0, z |-> 0], tau |-> 0,
     out |-> NoOut]

\* context.createGain(): a GainNode at 1 with nothing scheduled.
createGain(context) ==
    [ctx |-> context, value |-> GainDen, target |-> -1, tau |-> 0,
     out |-> NoOut]

\* context.createBufferSource(): an unstarted source without buffer.  role
\* names the method that created the node (one-shot, stroke or bgm); ended
\* records that the platform has delivered the source's ended notification.
createBufferSource(context, role) ==
    [ctx |-> context, role |-> role, buffer |-> NoBuffer, loop |-> FALSE,
     rate |-> RateDen, rateTarget |-> -1, rateTau |-> 0, startDelay |-> -1,
     stopDelay |-> -1, onended |-> NoHandler, ended |-> FALSE,
     out |-> NoOut]

\* context.createBiquadFilter(): a filter with the Web Audio defaults.
createBiquadFilter(context) ==
    [ctx |-> context, type |-> "lowpass", frequency |-> 350, Q |-> 10,
     out |-> NoOut]

\* --------------------------------------------------------------- AudioMixer

\* An AudioMixer.initialize that creates a node at every call.
mixerInitializeAlwaysCreates(e, context) ==
    LET gainNode == [createGain(context) EXCEPT
                         !.value = 69700000,
                         !.out = Out("destination", context)]
    IN  [e EXCEPT !.gains = Append(@, gainNode),
                  !.mixerNode = Len(e.gains) + 1]

\* AudioMixer.initialize(context): the existing node if there is one, else a
\* new GainNode at 0.85 connected to the context's destination.
mixerInitialize(e, context) ==
    IF e.mixerNode # 0
      THEN e
      ELSE LET gainNode == [createGain(context) EXCEPT
                                !.value = 69700000,
                                !.out = Out("destination", context)]
           IN  [e EXCEPT !.gains = Append(@, gainNode),
                         !.mixerNode = Len(e.gains) + 1]

\* An AudioMixer.setMasterGain that never throws.
mixerSetMasterGainThrowsNever(e) == FALSE

\* AudioMixer.setMasterGain throws when the mixer holds no node.
mixerSetMasterGainThrows(e) == e.mixerNode = 0

\* AudioMixer.setMasterGain(gainValue), gainValue in 1/100: ramp the node to
\* the value clamped to [0, 1.5] with a 20 ms time constant.
mixerSetMasterGain(e, gainValue) ==
    IF mixerSetMasterGainThrows(e)
      THEN e
      ELSE LET clampedGain == Min2(Max2(gainValue, 0), 150)
           IN  [e EXCEPT !.gains[e.mixerNode].target = clampedGain * 820000,
                         !.gains[e.mixerNode].tau = 20]

\* An AudioMixer.dispose that disconnects the node but keeps holding it.
mixerDisposeKeepsNode(e) ==
    IF e.mixerNode # 0
      THEN [e EXCEPT !.gains[e.mixerNode].out = NoOut]
      ELSE e

\* AudioMixer.dispose(): disconnect and forget the node.
mixerDispose(e) ==
    IF e.mixerNode # 0
      THEN [e EXCEPT !.gains[e.mixerNode].out = NoOut, !.mixerNode = 0]
      ELSE e

\* ------------------------------------------------- SpatialAudioEngine, private

\* A getOrCreateContext that constructs a context at every call.
getOrCreateContextAlwaysNew(e, fresh) ==
    LET context == Len(e.contexts) + 1
        e1 == [e EXCEPT !.contexts =
                           Append(@, [state |-> fresh,
                                      resumeRequested |-> FALSE,
                                      closeCalls |-> 0]),
                        !.audioContext = context]
        e2 == mixerInitialize(e1, context)
    IN  [e2 EXCEPT !.masterGainNode = e2.mixerNode]

\* getOrCreateContext(): the current context, or a new one (in state
\* `fresh`, which the platform chooses) together with the master gain node.
getOrCreateContext(e, fresh) ==
    IF e.audioContext # 0
      THEN e
      ELSE LET context == Len(e.contexts) + 1
               e1 == [e EXCEPT !.contexts =
                                  Append(@, [state |-> fresh,
                                             resumeRequested |-> FALSE,
                                             closeCalls |-> 0]),
                               !.audioContext = context]
               e2 == mixerInitialize(e1, context)
           IN  [e2 EXCEPT !.masterGainNode = e2.mixerNode]

\* The states the platform may choose for the context a call on e constructs:
\* there is a choice only when e holds no context.
FreshStates(e) == IF e.audioContext = 0 THEN NewContextStates ELSE {"running"}

\* ensureMixerReady(): the master gain node, initializing the mixer when the
\* engine holds none.
ensureMixerReady(e, fresh) ==
    LET e1 == getOrCreateContext(e, fresh)
    IN  IF e1.masterGainNode = 0
          THEN LET e2 == mixerInitialize(e1, e1.audioContext)
               IN  [e2 EXCEPT !.masterGainNode = e2.mixerNode]
          ELSE e1

\* An ensureContextRunning that never asks for a resume.
ensureContextRunningIdle(e, context) == e

\* ensureContextRunning(context): ask a suspended context to resume.
ensureContextRunning(e, context) ==
    IF e.contexts[context].state = "suspended"
      THEN [e EXCEPT !.contexts[context].resumeRequested = TRUE]
      ELSE e

\* A createBuffer that accepts every duration.
createBufferSilent(durationSeconds) == FALSE

\* createBuffer throws for a duration that is not positive.
createBufferThrows(durationSeconds) == durationSeconds <= 0

\* The categories renderSynthBuffer has a case for.
SynthCategories ==
    {"whisper", "tapping", "scratching", "brushing", "water", "ear_cleaning",
     "ambient", "user"}

\* renderSynthBuffer throws: no case for the category, or createBuffer throws.
renderSynthBufferThrows(sound) ==
    \/ sound.category \notin SynthCategories
    \/ createBufferThrows(sound.defaultDurationSeconds)

\* The AudioBuffer object renderSynthBuffer returns: a new one at every call.
renderSynthBuffer(e, sound) == Buffer(sound.id, e.synthCalls[sound.id] + 1)

\* A getOrCreateBuffer that renders without looking for a cached buffer.
getOrCreateBufferAlwaysRenders(e, sound) ==
    IF sound.audioBuffer # NoBuffer
      THEN [e |-> e, buffer |-> sound.audioBuffer, threw |-> FALSE]
    ELSE IF renderSynthBufferThrows(sound)
      THEN [e |-> [e EXCEPT !.synthCalls[sound.id] = @ + 1],
            buffer |-> NoBuffer, threw |-> TRUE]
    ELSE [e |-> [e EXCEPT !.synthCalls[sound.id] = @ + 1,
                          !.bufferCache[sound.id] = renderSynthBuffer(e, sound)],
          buffer |-> renderSynthBuffer(e, sound), threw |-> FALSE]

\* A getOrCreateBuffer that looks in the cache before the supplied buffer.
getOrCreateBufferCacheFirst(e, sound) ==
    IF e.bufferCache[sound.id] # NoBuffer
      THEN [e |-> [e EXCEPT !.cacheReads = @ \cup {sound.id}],
            buffer |-> e.bufferCache[sound.id], threw |-> FALSE]
    ELSE IF sound.audioBuffer # NoBuffer
      THEN [e |-> [e EXCEPT !.cacheReads = @ \cup {sound.id}],
            buffer |-> sound.audioBuffer, threw |-> FALSE]
    ELSE IF renderSynthBufferThrows(sound)
      THEN [e |-> [e EXCEPT !.cacheReads = @ \cup {sound.id},
                            !.synthCalls[sound.id] = @ + 1],
            buffer |-> NoBuffer, threw |-> TRUE]
    ELSE [e |-> [e EXCEPT !.cacheReads = @ \cup {sound.id},
                          !.synthCalls[sound.id] = @ + 1,
                          !.bufferCache[sound.id] = renderSynthBuffer(e, sound)],
          buffer |-> renderSynthBuffer(e, sound), threw |-> FALSE]

\* getOrCreateBuffer(context, sound): the state it leaves, the buffer it
\* returns and whether it throws.  A supplied buffer is returned as it is;
\* else the cache is read and a hit returned; else the generator is called
\* and its buffer, unless it throws, stored under the sound id and returned.
getOrCreateBuffer(e, sound) ==
    IF sound.audioBuffer # NoBuffer
      THEN [e |-> e, buffer |-> sound.audioBuffer, threw |-> FALSE]
    ELSE IF e.bufferCache[sound.id] # NoBuffer
      THEN [e |-> [e EXCEPT !.cacheReads = @ \cup {sound.id}],
            buffer |-> e.bufferCache[sound.id], threw |-> FALSE]
    ELSE IF renderSynthBufferThrows(sound)
      THEN [e |-> [e EXCEPT !.cacheReads = @ \cup {sound.id},
                            !.synthCalls[sound.id] = @ + 1],
            buffer |-> NoBuffer, threw |-> TRUE]
    ELSE [e |-> [e EXCEPT !.cacheReads = @ \cup {sound.id},
                          !.synthCalls[sound.id] = @ + 1,
                          !.bufferCache[sound.id] = renderSynthBuffer(e, sound)],
          buffer |-> renderSynthBuffer(e, sound), threw |-> FALSE]

\* An applyPannerValues that clamps y to the range of x and z.
applyPannerValuesWideY(pannerNode, position, smoothingTime) ==
    [pannerNode EXCEPT
        !.panningModel = "HRTF", !.distanceModel = "inverse",
        !.refDistance = 1, !.maxDistance = 8, !.rolloffFactor = 1,
        !.target = [x |-> clamp(position.x, -25, 25),
                    y |-> clamp(position.y, -25, 25),
                    z |-> clamp(position.z, -25, 25)],
        !.tau = smoothingTime]

\* applyPannerValues: fixed HRTF configuration and the clamped position as
\* the ramp target of the three coordinates.
applyPannerValues(pannerNode, position, smoothingTime) ==
    [pannerNode EXCEPT
        !.panningModel = "HRTF", !.distanceModel = "inverse",
        !.refDistance = 1, !.maxDistance = 8, !.rolloffFactor = 1,
        !.target = [x |-> clamp(position.x, -25, 25),
                    y |-> clamp(position.y, -16, 16),
                    z |-> clamp(position.z, -25, 25)],
        !.tau = smoothingTime]

\* -------------------------------------------------- SpatialAudioEngine, public

\* isReady(): a context exists and is running.
isReady(e) ==
    e.audioContext # 0 /\ e.contexts[e.audioContext].state = "running"

\* A resumeContext that asks for a resume whatever the state of the context.
resumeContextUnconditional(e, fresh) ==
    LET e1 == getOrCreateContext(e, fresh)
    IN  [e1 EXCEPT !.contexts[e1.audioContext].resumeRequested = TRUE]

\* resumeContext(), up to its await: create the context when absent and ask
\* it to resume unless it is running.
resumeContext(e, fresh) ==
    LET e1 == getOrCreateContext(e, fresh)
        context == e1.audioContext
    IN  IF e1.contexts[context].state # "running"
          THEN [e1 EXCEPT !.contexts[context].resumeRequested = TRUE]
          ELSE e1

\* setMasterGain(gainValue).
setMasterGain(e, gainValue, fresh) ==
    mixerSetMasterGain(ensureMixerReady(e, fresh), gainValue)

\* An endStroke that forgets the session without fading or stopping it.
endStrokeWithoutStop(e) ==
    IF e.activeStrokeSession = NoStroke \/ e.audioContext = 0
      THEN e
      ELSE [e EXCEPT !.activeStrokeSession = NoStroke]

\* An endStroke that returns early unless the context is running.
endStrokeWhenReady(e) ==
    LET strokeSession == e.activeStrokeSession
    IN  IF strokeSession = NoStroke \/ ~isReady(e)
          THEN e
          ELSE [e EXCEPT
                  !.gains[strokeSession.gainNode].target = 8200,
                  !.gains[strokeSession.gainNode].tau = 50,
                  !.sources[strokeSession.sourceNode].stopDelay = 220,
                  !.sources[strokeSession.sourceNode].onended =
                      Handler("stroke", strokeSession.gainNode,
                              strokeSession.pannerNode),
                  !.activeStrokeSession = NoStroke]

\* An endStroke that obtains the context through getOrCreateContext.
endStrokeContextFirst(e) ==
    LET e1 == getOrCreateContext(e, "suspended")
        strokeSession == e1.activeStrokeSession
    IN  IF strokeSession = NoStroke
          THEN e1
          ELSE [e1 EXCEPT
                  !.gains[strokeSession.gainNode].target = 8200,
                  !.gains[strokeSession.gainNode].tau = 50,
                  !.sources[strokeSession.sourceNode].stopDelay = 220,
                  !.sources[strokeSession.sourceNode].onended =
                      Handler("stroke", strokeSession.gainNode,
                              strokeSession.pannerNode),
                  !.activeStrokeSession = NoStroke]

\* An endStroke that also stops every one-shot source.
endStrokeAndOneShots(e) ==
    LET strokeSession == e.activeStrokeSession
    IN  IF strokeSession = NoStroke \/ e.audioContext = 0
          THEN e
          ELSE [e EXCEPT
                  !.gains[strokeSession.gainNode].target = 8200,
                  !.gains[strokeSession.gainNode].tau = 50,
                  !.sources =
                      [s \in 1..Len(@) |->
                          IF s = strokeSession.sourceNode
                            THEN [@[s] EXCEPT
                                    !.stopDelay = 220,
                                    !.onended =
                                        Handler("stroke",
                                                strokeSession.gainNode,
                                                strokeSession.pannerNode)]
                          ELSE IF @[s].role = "one-shot"
                            THEN [@[s] EXCEPT !.stopDelay = 220]
                          ELSE @[s]],
                  !.activeStrokeSession = NoStroke]

\* endStroke(): nothing without a session or a context; else fade the gain
\* to 0.0001 (50 ms), stop the source 220 ms from now, install the
\* disconnecting onended handler and forget the session.
endStroke(e) ==
    LET strokeSession == e.activeStrokeSession
    IN  IF strokeSession = NoStroke \/ e.audioContext = 0
          THEN e
          ELSE [e EXCEPT
                  !.gains[strokeSession.gainNode].target = 8200,
                  !.gains[strokeSession.gainNode].tau = 50,
                  !.sources[strokeSession.sourceNode].stopDelay = 220,
                  !.sources[strokeSession.sourceNode].onended =
                      Handler("stroke", strokeSession.gainNode,
                              strokeSession.pannerNode),
                  !.activeStrokeSession = NoStroke]

\* A stopAmbientTrack that forgets the session without fading or stopping it.
stopAmbientTrackWithoutStop(e) ==
    IF e.activeBgmSession = NoBgm \/ e.audioContext = 0
      THEN e
      ELSE [e EXCEPT !.activeBgmSession = NoBgm]

\* A stopAmbientTrack that forgets the stroke session as well.
stopAmbientTrackAndStroke(e) ==
    IF e.activeBgmSession = NoBgm \/ e.audioContext = 0
      THEN e
      ELSE LET bgmSession == e.activeBgmSession
           IN  [e EXCEPT
                  !.gains[bgmSession.gainNode].target = 8200,
                  !.gains[bgmSession.gainNode].tau = 100,
                  !.sources[bgmSession.sourceNode].stopDelay = 400,
                  !.sources[bgmSession.sourceNode].onended =
                      Handler("bgm", bgmSession.gainNode,
                              bgmSession.filterNode),
                  !.activeBgmSession = NoBgm,
                  !.activeStrokeSession = NoStroke]

\* stopAmbientTrack(): nothing without a session or a context; else fade the
\* gain to 0.0001 (100 ms), stop the source 400 ms from now, install the
\* disconnecting onended handler and forget the session.
stopAmbientTrack(e) ==
    IF e.activeBgmSession = NoBgm \/ e.audioContext = 0
      THEN e
      ELSE LET bgmSession == e.activeBgmSession
           IN  [e EXCEPT
                  !.gains[bgmSession.gainNode].target = 8200,
                  !.gains[bgmSession.gainNode].tau = 100,
                  !.sources[bgmSession.sourceNode].stopDelay = 400,
                  !.sources[bgmSession.sourceNode].onended =
                      Handler("bgm", bgmSession.gainNode,
                              bgmSession.filterNode),
                  !.activeBgmSession = NoBgm]

\* A session switch that resolves the buffer before it ends the old session.
createStrokeSessionBufferFirst(e, context, sound, fresh) ==
    LET r == getOrCreateBuffer(e, sound)
        ended == endStroke(r.e)
        s == Len(ended.sources) + 1
        g == Len(ended.gains) + 1
        p == Len(ended.panners) + 1
        sourceNode == [createBufferSource(context, "stroke") EXCEPT
                         !.buffer = r.buffer, !.loop = TRUE,
                         !.rate = 64400, !.out = Out("gain", g)]
        gainNode == [createGain(context) EXCEPT
                       !.value = 8200, !.out = Out("panner", p)]
        pannerNode == applyPannerValues(createPanner(context),
                                        [x |-> 0, y |-> 0, z |-> 0], 700)
        e1 == ensureMixerReady(
                  [ended EXCEPT !.sources = Append(@, sourceNode),
                                !.gains = Append(@, gainNode),
                                !.panners = Append(@, pannerNode)], fresh)
    IN  IF r.threw
          THEN [e |-> r.e, threw |-> TRUE]
          ELSE [e |-> [e1 EXCEPT
                         !.panners[p].out = Out("gain", e1.masterGainNode),
                         !.sources[s].startDelay = 3,
                         !.activeStrokeSession =
                             [soundId |-> sound.id, sourceNode |-> s,
                              gainNode |-> g, pannerNode |-> p]],
                threw |-> FALSE]

\* getOrCreateStrokeSession(context, sound) past its reuse check: the state
\* it leaves and whether it throws.  The active session is ended and
\* source -> gain -> panner -> master is built for the sound, looping, at
\* rate 0.92 and gain 0.0001, started 3 ms from now.  A throwing
\* getOrCreateBuffer leaves the old session ended.
createStrokeSession(e, context, sound, fresh) ==
    LET r == getOrCreateBuffer(endStroke(e), sound)
        s == Len(r.e.sources) + 1
        g == Len(r.e.gains) + 1
        p == Len(r.e.panners) + 1
        sourceNode == [createBufferSource(context, "stroke") EXCEPT
                         !.buffer = r.buffer, !.loop = TRUE,
                         !.rate = 64400, !.out = Out("gain", g)]
        gainNode == [createGain(context) EXCEPT
                       !.value = 8200, !.out = Out("panner", p)]
        pannerNode == applyPannerValues(createPanner(context),
                                        [x |-> 0, y |-> 0, z |-> 0], 700)
        e1 == ensureMixerReady(
                  [r.e EXCEPT !.sources = Append(@, sourceNode),
                              !.gains = Append(@, gainNode),
                              !.panners = Append(@, pannerNode)], fresh)
    IN  IF r.threw
          THEN [e |-> r.e, threw |-> TRUE]
          ELSE [e |-> [e1 EXCEPT
                         !.panners[p].out = Out("gain", e1.masterGainNode),
                         !.sources[s].startDelay = 3,
                         !.activeStrokeSession =
                             [soundId |-> sound.id, sourceNode |-> s,
                              gainNode |-> g, pannerNode |-> p]],
                threw |-> FALSE]

\* A getOrCreateStrokeSession without the reuse check.
getOrCreateStrokeSessionAlwaysNew(e, context, sound, fresh) ==
    createStrokeSession(e, context, sound, fresh)

\* getOrCreateStrokeSession(context, sound): the active session when it is
\* keyed by sound.id, else a new one.
getOrCreateStrokeSession(e, context, sound, fresh) ==
    IF e.activeStrokeSession # NoStroke
       /\ e.activeStrokeSession.soundId = sound.id
      THEN [e |-> e, threw |-> FALSE]
      ELSE createStrokeSession(e, context, sound, fresh)

\* An updateStroke that retargets only the session it has just created.
updateStrokeFirstWins(e, request, fresh) ==
    LET e1 == getOrCreateContext(e, fresh)
        context == e1.audioContext
        r == getOrCreateStrokeSession(ensureContextRunning(e1, context),
                                      context, request.sound, fresh)
        strokeSession == r.e.activeStrokeSession
    IN  IF r.threw \/ strokeSession = e.activeStrokeSession
          THEN r
          ELSE [e |-> [r.e EXCEPT
                         !.panners[strokeSession.pannerNode] =
                             applyPannerValues(
                                 @, request.position,
                                 computePositionSmoothing(request.strokeSpeed)),
                         !.gains[strokeSession.gainNode].target =
                             computeGain(request.sound.defaultGain,
                                         request.intensity, "drag",
                                         request.strokeSpeed),
                         !.gains[strokeSession.gainNode].tau = 28,
                         !.sources[strokeSession.sourceNode].rateTarget =
                             computePlaybackRate(request.sound.category,
                                                 "drag", request.strokeSpeed),
                         !.sources[strokeSession.sourceNode].rateTau = 40],
                threw |-> FALSE]

\* updateStroke(request): the state it leaves and whether it throws.  It gets
\* or creates the stroke session of the sound and retargets its panner
\* position, its gain (28 ms, always the drag formula) and its playback
\* rate (40 ms).
updateStroke(e, request, fresh) ==
    LET e1 == getOrCreateContext(e, fresh)
        context == e1.audioContext
        r == getOrCreateStrokeSession(ensureContextRunning(e1, context),
                                      context, request.sound, fresh)
        strokeSession == r.e.activeStrokeSession
        positionSmoothing == computePositionSmoothing(request.strokeSpeed)
        targetGain == computeGain(request.sound.defaultGain,
                                  request.intensity, "drag",
                                  request.strokeSpeed)
        targetRate == computePlaybackRate(request.sound.category, "drag",
                                          request.strokeSpeed)
    IN  IF r.threw
          THEN r
          ELSE [e |-> [r.e EXCEPT
                         !.panners[strokeSession.pannerNode] =
                             applyPannerValues(@, request.position,
                                               positionSmoothing),
                         !.gains[strokeSession.gainNode].target = targetGain,
                         !.gains[strokeSession.gainNode].tau = 28,
                         !.sources[strokeSession.sourceNode].rateTarget =
                             targetRate,
                         !.sources[strokeSession.sourceNode].rateTau = 40],
                threw |-> FALSE]

\* A play with a single voice: it stops the one-shots started before.
playSingleVoice(e, request, fresh) ==
    LET e1 == getOrCreateContext(e, fresh)
        context == e1.audioContext
        r == getOrCreateBuffer(ensureContextRunning(e1, context),
                               request.sound)
        s == Len(r.e.sources) + 1
        g == Len(r.e.gains) + 1
        p == Len(r.e.panners) + 1
        sourceNode == [createBufferSource(context, "one-shot") EXCEPT
                         !.buffer = r.buffer, !.loop = request.sound.loop,
                         !.rate = computePlaybackRate(request.sound.category,
                                                      request.gesture,
                                                      request.strokeSpeed),
                         !.out = Out("gain", g)]
        gainNode == [createGain(context) EXCEPT
                       !.value = computeGain(request.sound.defaultGain,
                                             request.intensity,
                                             request.gesture,
                                             request.strokeSpeed),
                       !.out = Out("panner", p)]
        pannerNode == applyPannerValues(createPanner(context),
                                        request.position, 700)
        stopped == [i \in 1..Len(r.e.sources) |->
                      IF r.e.sources[i].role = "one-shot"
                        THEN [r.e.sources[i] EXCEPT !.stopDelay = 0]
                        ELSE r.e.sources[i]]
        e2 == ensureMixerReady(
                  [r.e EXCEPT !.sources = Append(stopped, sourceNode),
                              !.gains = Append(@, gainNode),
                              !.panners = Append(@, pannerNode)], fresh)
    IN  IF r.threw
          THEN [e |-> r.e, threw |-> TRUE]
          ELSE [e |-> [e2 EXCEPT
                         !.panners[p].out = Out("gain", e2.masterGainNode),
                         !.sources[s].startDelay = 4,
                         !.sources[s].stopDelay =
                             IF sourceNode.loop THEN -1
                             ELSE request.sound.defaultDurationSeconds],
                threw |-> FALSE]

\* play(request): the state it leaves and whether it throws.  A one-shot
\* source -> gain -> panner -> master, started 4 ms from now and, unless it
\* loops, stopped after the default duration.
play(e, request, fresh) ==
    LET e1 == getOrCreateContext(e, fresh)
        context == e1.audioContext
        r == getOrCreateBuffer(ensureContextRunning(e1, context),
                               request.sound)
        s == Len(r.e.sources) + 1
        g == Len(r.e.gains) + 1
        p == Len(r.e.panners) + 1
        sourceNode == [createBufferSource(context, "one-shot") EXCEPT
                         !.buffer = r.buffer, !.loop = request.sound.loop,
                         !.rate = computePlaybackRate(request.sound.category,
                                                      request.gesture,
                                                      request.strokeSpeed),
                         !.out = Out("gain", g)]
        gainNode == [createGain(context) EXCEPT
                       !.value = computeGain(request.sound.defaultGain,
                                             request.intensity,
                                             request.gesture,
                                             request.strokeSpeed),
                       !.out = Out("panner", p)]
        pannerNode == applyPannerValues(createPanner(context),
                                        request.position, 700)
        e2 == ensureMixerReady(
                  [r.e EXCEPT !.sources = Append(@, sourceNode),
                              !.gains = Append(@, gainNode),
                              !.panners = Append(@, pannerNode)], fresh)
    IN  IF r.threw
          THEN [e |-> r.e, threw |-> TRUE]
          ELSE [e |-> [e2 EXCEPT
                         !.panners[p].out = Out("gain", e2.masterGainNode),
                         !.sources[s].startDelay = 4,
                         !.sources[s].stopDelay =
                             IF sourceNode.loop THEN -1
                             ELSE request.sound.defaultDurationSeconds],
                threw |-> FALSE]

\* setAmbientTrack(sound, gainValue) past its null check, gainValue in
\* 1/100: the state it leaves and whether it throws.  It retargets the gain
\* of the session keyed by sound.id (80 ms), or stops the active session and
\* builds source -> low-pass filter (2800 Hz, Q 0.7) -> gain -> master,
\* looping at rate 1 from gain 0.0001, started 5 ms from now and ramped to
\* the clamped gain (150 ms).
startOrUpdateAmbientTrack(e, sound, gainValue, fresh) ==
    LET e1 == getOrCreateContext(e, fresh)
        context == e1.audioContext
        e2 == ensureContextRunning(e1, context)
        safeGain == clamp(gainValue, 0, 120) * 820000
        r == getOrCreateBuffer(stopAmbientTrack(e2), sound)
        s == Len(r.e.sources) + 1
        g == Len(r.e.gains) + 1
        f == Len(r.e.filters) + 1
        sourceNode == [createBufferSource(context, "bgm") EXCEPT
                         !.buffer = r.buffer, !.loop = TRUE, !.rate = RateDen,
                         !.out = Out("filter", f)]
        filterNode == [createBiquadFilter(context) EXCEPT
                         !.type = "lowpass", !.frequency = 2800, !.Q = 7,
                         !.out = Out("gain", g)]
        gainNode == [createGain(context) EXCEPT !.value = 8200]
        e3 == ensureMixerReady(
                  [r.e EXCEPT !.sources = Append(@, sourceNode),
                              !.gains = Append(@, gainNode),
                              !.filters = Append(@, filterNode)], fresh)
    IN  IF e2.activeBgmSession # NoBgm
           /\ e2.activeBgmSession.soundId = sound.id
          THEN [e |-> [e2 EXCEPT
                         !.gains[e2.activeBgmSession.gainNode].target =
                             safeGain,
                         !.gains[e2.activeBgmSession.gainNode].tau = 80],
                threw |-> FALSE]
        ELSE IF r.threw
          THEN [e |-> r.e, threw |-> TRUE]
        ELSE [e |-> [e3 EXCEPT
                       !.gains[g].out = Out("gain", e3.masterGainNode),
                       !.sources[s].startDelay = 5,
                       !.gains[g].target = safeGain,
                       !.gains[g].tau = 150,
                       !.activeBgmSession =
                           [soundId |-> sound.id, sourceNode |-> s,
                            gainNode |-> g, filterNode |-> f]],
              threw |-> FALSE]

\* A setAmbientTrack that stops the active track before anything else.
setAmbientTrackRestart(e, sound, gainValue, fresh) ==
    IF sound = NullSound
      THEN [e |-> stopAmbientTrack(e), threw |-> FALSE]
      ELSE startOrUpdateAmbientTrack(stopAmbientTrack(e), sound, gainValue,
                                     fresh)

\* A setAmbientTrack that obtains the context before its null check.
setAmbientTrackContextFirst(e, sound, gainValue, fresh) ==
    IF sound = NullSound
      THEN [e |-> stopAmbientTrack(getOrCreateContext(e, fresh)),
            threw |-> FALSE]
      ELSE startOrUpdateAmbientTrack(e, sound, gainValue, fresh)

\* setAmbientTrack(sound, gainValue): the state it leaves and whether it
\* throws.  stopAmbientTrack() for null, before anything else; else as above.
setAmbientTrack(e, sound, gainValue, fresh) ==
    IF sound = NullSound
      THEN [e |-> stopAmbientTrack(e), threw |-> FALSE]
      ELSE startOrUpdateAmbientTrack(e, sound, gainValue, fresh)

\* A dispose that closes the context but keeps the reference to it.
disposeKeepsContext(e) ==
    LET e1 == endStroke(e)
        e2 == stopAmbientTrack(e1)
        e3 == [e2 EXCEPT !.bufferCache = [i \in SoundIds |-> NoBuffer]]
        e4 == IF e3.audioContext # 0
                THEN [e3 EXCEPT
                        !.contexts[e3.audioContext] =
                            [state |-> "closed", resumeRequested |-> FALSE,
                             closeCalls |->
                                 e3.contexts[e3.audioContext].closeCalls + 1]]
                ELSE e3
        e5 == mixerDispose(e4)
    IN  [e5 EXCEPT !.masterGainNode = 0]

\* A dispose that keeps the engine's reference to the master gain node.
disposeKeepsMasterReference(e) ==
    LET e1 == endStroke(e)
        e2 == stopAmbientTrack(e1)
        e3 == [e2 EXCEPT !.bufferCache = [i \in SoundIds |-> NoBuffer]]
        e4 == IF e3.audioContext # 0
                THEN [e3 EXCEPT
                        !.contexts[e3.audioContext] =
                            [state |-> "closed", resumeRequested |-> FALSE,
                             closeCalls |->
                                 e3.contexts[e3.audioContext].closeCalls + 1],
                        !.audioContext = 0]
                ELSE e3
    IN  mixerDispose(e4)

\* dispose(): end the stroke, stop the ambient track, clear the cache, close
\* and forget the context, dispose the mixer and forget the master node.
dispose(e) ==
    LET e1 == endStroke(e)
        e2 == stopAmbientTrack(e1)
        e3 == [e2 EXCEPT !.bufferCache = [i \in SoundIds |-> NoBuffer]]
        e4 == IF e3.audioContext # 0
                THEN [e3 EXCEPT
                        !.contexts[e3.audioContext] =
                            [state |-> "closed", resumeRequested |-> FALSE,
                             closeCalls |->
                                 e3.contexts[e3.audioContext].closeCalls + 1],
                        !.audioContext = 0]
                ELSE e3
        e5 == mixerDispose(e4)
    IN  [e5 EXCEPT !.masterGainNode = 0]

\* ----------------------------------------------------------------- actions

\* What lastCall records of a facade call: the method, the sound id it was
\* given ("" for none), whether it threw, whether the call before it was of
\* the same method, and whether dispose() has been called by now.
Call(op, id, threw) ==
    [op |-> op, id |-> id, threw |-> threw, repeated |-> lastCall.op = op,
     disposed |-> lastCall.disposed \/ op = "dispose"]

\* A facade call moves the engine and its environment to state e.
Moves(e) ==
    /\ calls' = calls + 1
    /\ audioContext' = e.audioContext
    /\ masterGainNode' = e.masterGainNode
    /\ mixerNode' = e.mixerNode
    /\ bufferCache' = e.bufferCache
    /\ activeStrokeSession' = e.activeStrokeSession
    /\ activeBgmSession' = e.activeBgmSession
    /\ contexts' = e.contexts
    /\ sources' = e.sources
    /\ gains' = e.gains
    /\ panners' = e.panners
    /\ filters' = e.filters
    /\ synthCalls' = e.synthCalls
    /\ cacheReads' = e.cacheReads

\* A facade call moves the engine to state e.
Becomes(e) ==
    /\ Moves(e)
    /\ UNCHANGED probe

\* The state after construction: no context, no node, an empty cache.
InitEngine ==
    /\ audioContext = 0
    /\ masterGainNode = 0
    /\ mixerNode = 0
    /\ bufferCache = [i \in SoundIds |-> NoBuffer]
    /\ activeStrokeSession = NoStroke
    /\ activeBgmSession = NoBgm
    /\ contexts = <<>>
    /\ sources = <<>>
    /\ gains = <<>>
    /\ panners = <<>>
    /\ filters = <<>>
    /\ synthCalls = [i \in SoundIds |-> 0]
    /\ cacheReads = {}
    /\ lastCall = [op |-> "new", id |-> "", threw |-> FALSE,
                   repeated |-> FALSE, disposed |-> FALSE]
    /\ calls = 0

Init ==
    /\ InitEngine
    /\ probe = NoProbe

ResumeContext ==
    /\ calls < MaxCalls
    /\ \E fresh \in FreshStates(Engine) :
        /\ \E e \in {resumeContext(Engine, fresh)} : Becomes(e)
        /\ lastCall' = Call("resumeContext", "", FALSE)

SetMasterGain ==
    /\ calls < MaxCalls
    /\ \E fresh \in FreshStates(Engine), gainValue \in MasterGains :
        /\ \E e \in {setMasterGain(Engine, gainValue, fresh)} : Becomes(e)
        /\ lastCall' = Call("setMasterGain", "", FALSE)

Play ==
    /\ calls < MaxCalls
    /\ \E fresh \in FreshStates(Engine), request \in PlayRequests :
        \E r \in {play(Engine, request, fresh)} :
            /\ Becomes(r.e)
            /\ lastCall' = Call("play", request.sound.id, r.threw)

UpdateStroke ==
    /\ calls < MaxCalls
    /\ \E fresh \in FreshStates(Engine), request \in StrokeRequests :
        \E r \in {updateStroke(Engine, request, fresh)} :
            /\ Becomes(r.e)
            /\ lastCall' = Call("updateStroke", request.sound.id, r.threw)

EndStroke ==
    /\ calls < MaxCalls
    /\ \E e \in {endStroke(Engine)} : Becomes(e)
    /\ lastCall' = Call("endStroke", "", FALSE)

SetAmbientTrack ==
    /\ calls < MaxCalls
    /\ \E fresh \in FreshStates(Engine), sound \in AmbientSounds,
          gainValue \in AmbientGains :
        \E r \in {setAmbientTrack(Engine, sound, gainValue, fresh)} :
            /\ Becomes(r.e)
            /\ lastCall' = Call("setAmbientTrack", sound.id, r.threw)

StopAmbientTrack ==
    /\ calls < MaxCalls
    /\ \E e \in {stopAmbientTrack(Engine)} : Becomes(e)
    /\ lastCall' = Call("stopAmbientTrack", "", FALSE)

Dispose ==
    /\ calls < MaxCalls
    /\ \E e \in {dispose(Engine)} : Becomes(e)
    /\ lastCall' = Call("dispose", "", FALSE)

\* The platform completes a requested resume of a context that is not closed.
ContextResumed ==
    \E c \in 1..Len(contexts) :
        /\ contexts[c].state = "suspended"
        /\ contexts[c].resumeRequested
        /\ contexts[c].closeCalls = 0
        /\ contexts' = [contexts EXCEPT ![c].state = "running",
                                        ![c].resumeRequested = FALSE]
        /\ UNCHANGED <<audioContext, masterGainNode, mixerNode, bufferCache,
                       activeStrokeSession, activeBgmSession, sources, gains,
                       panners, filters, synthCalls, cacheReads, lastCall,
                       calls, probe>>

Next ==
    \/ ResumeContext
    \/ SetMasterGain
    \/ Play
    \/ UpdateStroke
    \/ EndStroke
    \/ SetAmbientTrack
    \/ StopAmbientTrack
    \/ Dispose
    \/ ContextResumed

Spec == Init /\ [][Next]_vars

\* Only the calls that resolve buffers: play, updateStroke, setAmbientTrack.
NextPlayback ==
    \/ Play
    \/ UpdateStroke
    \/ SetAmbientTrack
    \/ ContextResumed

SpecPlayback == Init /\ [][NextPlayback]_vars

\* ----------------------------------------------------------------- teardown

\* A handler that disconnects the source and leaves the other two nodes of
\* its session connected.
onendedSourceOnly(e, sourceNode) ==
    [e EXCEPT !.sources[sourceNode].ended = TRUE,
              !.sources[sourceNode].out =
                  IF e.sources[sourceNode].onended.kind = "none"
                    THEN @ ELSE NoOut]

\* The ended notification of a source is dispatched: the handler installed by
\* endStroke disconnects the source, its gain and its panner, the one
\* installed by stopAmbientTrack the source, its gain and its filter; a
\* source without handler (a one-shot) keeps its connections.
onended(e, sourceNode) ==
    LET handler == e.sources[sourceNode].onended
        e1 == [e EXCEPT !.sources[sourceNode].ended = TRUE]
    IN  CASE handler.kind = "stroke" ->
               [e1 EXCEPT !.sources[sourceNode].out = NoOut,
                          !.gains[handler.gainNode].out = NoOut,
                          !.panners[handler.otherNode].out = NoOut]
          [] handler.kind = "bgm" ->
               [e1 EXCEPT !.sources[sourceNode].out = NoOut,
                          !.gains[handler.gainNode].out = NoOut,
                          !.filters[handler.otherNode].out = NoOut]
          [] OTHER -> e1

\* The platform delivers the ended notification of a started source whose
\* stop time has been scheduled, once, while the clock of its context runs.
SourceEnded ==
    \E sourceNode \in 1..Len(sources) :
        /\ sources[sourceNode].startDelay >= 0
        /\ sources[sourceNode].stopDelay >= 0
        /\ ~sources[sourceNode].ended
        /\ contexts[sources[sourceNode].ctx].state = "running"
        /\ \E e \in {onended(Engine, sourceNode)} :
            /\ sources' = e.sources
            /\ gains' = e.gains
            /\ panners' = e.panners
            /\ filters' = e.filters
        /\ UNCHANGED <<audioContext, masterGainNode, mixerNode, bufferCache,
                       activeStrokeSession, activeBgmSession, contexts,
                       synthCalls, cacheReads, lastCall, calls, probe>>

\* The calls that start and tear down sessions and one-shots, with the
\* platform's resume completions and ended notifications in between.
NextTeardown ==
    \/ Play
    \/ UpdateStroke
    \/ EndStroke
    \/ SetAmbientTrack
    \/ StopAmbientTrack
    \/ Dispose
    \/ ContextResumed
    \/ SourceEnded

SpecTeardown == Init /\ [][NextTeardown]_vars

\* ----------------------------------------------------------- looping one-shot

\* play() requests for sounds whose loop flag is true.
LoopingRequests ==
    {MkRequest(AmbientRain, 0, 10, -5, 100, "tap", 0),
     MkRequest([UserSound EXCEPT !.loop = TRUE], 30, -20, 0, 100, "tap", 0)}

\* play() is called for a looping sound.
PlayLooping ==
    /\ calls < MaxCalls
    /\ \E fresh \in FreshStates(Engine), request \in LoopingRequests :
        \E r \in {play(Engine, request, fresh)} :
            /\ Becomes(r.e)
            /\ lastCall' = Call("play", request.sound.id, r.threw)

\* Looping and other one-shots among the session calls and dispose(), with
\* the platform's resume completions and ended notifications in between.
NextLooping ==
    \/ PlayLooping
    \/ Play
    \/ UpdateStroke
    \/ EndStroke
    \/ SetAmbientTrack
    \/ StopAmbientTrack
    \/ Dispose
    \/ ContextResumed
    \/ SourceEnded

SpecLooping == Init /\ [][NextLooping]_vars

\* ------------------------------------------------------------ session switch

\* Descriptors without buffer whose synthesis throws: a duration of zero and
\* a category renderSynthBuffer has no case for.
FailingSounds ==
    {ZeroDuration, [ScratchGentle EXCEPT !.category = "voice"]}

\* updateStroke is called with a sound whose buffer cannot be synthesized.
UpdateStrokeFailing ==
    /\ calls < MaxCalls
    /\ \E fresh \in FreshStates(Engine), sound \in FailingSounds :
        \E r \in {updateStroke(Engine,
                               MkRequest(sound, 5, 0, 2, 85, "drag", 420),
                               fresh)} :
            /\ Becomes(r.e)
            /\ lastCall' = Call("updateStroke", sound.id, r.threw)

\* setAmbientTrack is called with a sound whose buffer cannot be synthesized.
SetAmbientTrackFailing ==
    /\ calls < MaxCalls
    /\ \E fresh \in FreshStates(Engine), sound \in FailingSounds :
        \E r \in {setAmbientTrack(Engine, sound, 33, fresh)} :
            /\ Becomes(r.e)
            /\ lastCall' = Call("setAmbientTrack", sound.id, r.threw)

\* Session calls with sounds that can and that cannot be synthesized.
NextSwitch ==
    \/ UpdateStroke
    \/ SetAmbientTrack
    \/ UpdateStrokeFailing
    \/ SetAmbientTrackFailing
    \/ ContextResumed

SpecSwitch == Init /\ [][NextSwitch]_vars

\* ---------------------------------------------------------------- readiness

\* The promises resumeContext() has returned, in call order.  A promise waits
\* for the resume of a context (0: the call found the context running and
\* awaits nothing); when it resolves, the value isReady() has at that moment
\* is recorded.
NoPromises == [fn |-> "resumeContext", promises |-> <<>>]

InitReadiness ==
    /\ InitEngine
    /\ probe = NoPromises

\* resumeContext() is called and returns its promise: the context is created
\* when absent and asked to resume unless it is running, in which case the
\* promise resolves at once.
ResumeContextCalled ==
    /\ calls < MaxCalls
    /\ \E fresh \in FreshStates(Engine) :
        \E e \in {resumeContext(Engine, fresh)} :
            LET context == e.audioContext
                found == getOrCreateContext(Engine, fresh)
                             .contexts[context].state
                awaits == found # "running"
            IN  /\ Moves(e)
                /\ lastCall' = Call("resumeContext", "", FALSE)
                /\ probe' =
                       [probe EXCEPT
                           !.promises =
                               Append(@, [context |-> IF awaits
                                                        THEN context ELSE 0,
                                          created |-> Engine.audioContext = 0,
                                          found |-> found,
                                          resolved |-> ~awaits,
                                          ready |-> ~awaits /\ isReady(e)])]

\* The platform completes the requested resume of a context that is not
\* closed, and the promises of resumeContext() that await it resolve.
ResumeCompleted ==
    \E c \in 1..Len(contexts) :
        /\ contexts[c].state = "suspended"
        /\ contexts[c].resumeRequested
        /\ contexts[c].closeCalls = 0
        /\ contexts' = [contexts EXCEPT ![c].state = "running",
                                        ![c].resumeRequested = FALSE]
        /\ probe' =
               [probe EXCEPT
                   !.promises =
                       [k \in 1..Len(@) |->
                           IF @[k].context = c /\ ~@[k].resolved
                             THEN [@[k] EXCEPT
                                      !.resolved = TRUE,
                                      !.ready = audioContext = c]
                             ELSE @[k]]]
        /\ UNCHANGED <<audioContext, masterGainNode, mixerNode, bufferCache,
                       activeStrokeSession, activeBgmSession, sources, gains,
                       panners, filters, synthCalls, cacheReads, lastCall,
                       calls>>

NextReadiness ==
    \/ ResumeContextCalled
    \/ Play
    \/ UpdateStroke
    \/ Dispose
    \/ ResumeCompleted

SpecReadiness == InitReadiness /\ [][NextReadiness]_vars

\* ------------------------------------------------------------ pure functions

\* Arguments of the pure functions: base gains and intensities in 1/100
\* (negative, zero, small, catalog values, large), gestures, and stroke
\* speeds in px/s (negative, zero, a grid across both clamp ranges, huge).
BaseGains == {-50, 0, 1, 36, 42, 120, 300}
Intensities == {-100, 0, 1, 85, 100, 200}
Gestures == {"tap", "drag"}
StrokeSpeeds == {70 * k : k \in -1..MaxSpeedSteps} \cup {1000000}

engineVars ==
    <<audioContext, masterGainNode, mixerNode, bufferCache,
      activeStrokeSession, activeBgmSession, contexts, sources, gains,
      panners, filters, synthCalls, cacheReads, lastCall, calls>>

\* A request for a synthesized sound of the given base gain and category.
ProbeRequest(category, baseGain, intensity, gesture, strokeSpeed, x, y, z) ==
    MkRequest([WhisperSoft EXCEPT !.category = category,
                                  !.defaultGain = baseGain],
              x, y, z, intensity, gesture, strokeSpeed)

\* The gain node play connects its source to, and the gain node, source and
\* panner of the session updateStroke leaves, on a new engine.
PlayedGain(request) ==
    LET e == play(NewEngine, request, "running").e
    IN  e.gains[e.sources[1].out.id]
StrokedGain(request) ==
    LET e == updateStroke(NewEngine, request, "running").e
    IN  e.gains[e.activeStrokeSession.gainNode]

\* The arguments of one call of computeGain, not yet made.
GainInputs ==
    [fn : {"computeGain"}, done : {FALSE}, baseGain : BaseGains,
     intensity : Intensities, gesture : Gestures, strokeSpeed : StrokeSpeeds]

\* The arguments of one call of computePlaybackRate, not yet made.
RateInputs ==
    [fn : {"computePlaybackRate"}, done : {FALSE},
     category : SynthCategories, gesture : Gestures,
     strokeSpeed : StrokeSpeeds]

\* The argument of one call of computePositionSmoothing, not yet made.
SmoothingInputs ==
    [fn : {"computePositionSmoothing"}, done : {FALSE},
     strokeSpeed : StrokeSpeeds]

\* Requested coordinates in 1/10: inside, on and outside both clamp ranges.
Coordinates == {-1000, -26, -25, -17, -16, -5, 0, 5, 16, 17, 25, 26, 1000}

\* The position of one request to play and updateStroke, not yet made.
PositionInputs ==
    [fn : {"applyPannerValues"}, done : {FALSE},
     x : Coordinates, y : Coordinates, z : Coordinates]

\* World points in 1/100: hit points around a head of radius 1, head
\* centres, and the head rotations whose quaternion has one component of
\* magnitude 1 (none, the opposite sign of none, and the half turns).
HitPoints == [x : {-100, 0, 100}, y : {-100, 0, 100}, z : {-100, 0, 100}]
HeadCenters ==
    {[x |-> 0, y |-> 0, z |-> 0], [x |-> 20, y |-> -10, z |-> 5],
     [x |-> -100, y |-> 100, z |-> 100]}
Unrotated == [x |-> 0, y |-> 0, z |-> 0, w |-> 1]
HeadQuaternions ==
    {q \in [x : -1..1, y : -1..1, z : -1..1, w : -1..1] :
        q.x * q.x + q.y * q.y + q.z * q.z + q.w * q.w = 1}

\* The arguments of one call of touchToAudioPosition, not yet made.
TouchInputs ==
    [fn : {"touchToAudioPosition"}, done : {FALSE},
     intersectPoint : HitPoints, headCenter : HeadCenters,
     headQuaternion : HeadQuaternions]

\* One hit on a mesh with a generic name, of an unrotated, unscaled head at
\* the origin, not yet classified: points on, next to and far from each
\* threshold of mapLocalPointToRegion, in 1/100.
TouchHitInputs ==
    [fn : {"buildTouchHit"}, done : {FALSE},
     worldPoint : [x : {-100, -81, -80, 0, 80, 81, 100},
                   y : {-100, 0, 64, 65, 100},
                   z : {-100, -57, -56, 0, 52, 53, 100}]]

\* Integer seeds: negative, zero, catalog seeds, the documented example, and
\* the largest the model's integers hold.
Seeds == {-1, 0, 11, 21, 123, 2147483647}

\* The seeds of two calls of createRandom, not yet made.
RandomInputs ==
    [fn : {"createRandom"}, done : {FALSE}, seedA : Seeds, seedB : Seeds]

\* Descriptors without buffer given to renderSynthBuffer: every category and
\* one undeclared, seeds and durations that agree and differ, ambient ids
\* with each keyword, and a duration that is not positive.
Descriptor(id, category, seed, durationSeconds) ==
    [WhisperSoft EXCEPT !.id = id, !.category = category, !.seed = seed,
                        !.defaultDurationSeconds = durationSeconds]
RenderSounds ==
    {Descriptor("whisper-soft", "whisper", 11, 1800),
     Descriptor("whisper-close", "whisper", 12, 1800),
     Descriptor("whisper-hush", "whisper", 11, 1000),
     Descriptor("whisper-silk", "whisper", 11, 1800),
     Descriptor("user-1", "user", 11, 1800),
     Descriptor("tap-wood", "tapping", 11, 1800),
     Descriptor("scratch-gentle", "scratching", 11, 1800),
     Descriptor("brush-fiber", "brushing", 11, 1800),
     Descriptor("water-drop", "water", 11, 1800),
     Descriptor("ear-clean-cotton", "ear_cleaning", 11, 1800),
     Descriptor("ambient-rain", "ambient", 61, 1800),
     Descriptor("ambient-fire", "ambient", 61, 1800),
     Descriptor("ambient-forest", "ambient", 61, 1800),
     Descriptor("ambient-night", "ambient", 61, 1800),
     Descriptor("ambient-wind", "ambient", 61, 1800),
     Descriptor("voice-1", "voice", 11, 1800),
     Descriptor("zero-duration", "water", 11, 0)}

\* Frames per second of a context, scaled down to keep the buffers short.
SampleRates == {2, 3}

\* The arguments of the first call of renderSynthBuffer, not yet made.
RenderInputs ==
    [fn : {"renderSynthBuffer"}, done : {FALSE}, sound : RenderSounds,
     sampleRate : SampleRates]

\* The values of two calls of setMasterGain in 1/100, not yet made:
\* negative, zero, inside, on and beyond the upper bound.
MasterGainValues == {-100, 0, 1, 85, 120, 150, 151, 1000}
MasterGainInputs ==
    [fn : {"setMasterGain"}, done : {FALSE}, gainValue : MasterGainValues,
     nextValue : MasterGainValues]

\* The arguments of the calls made on an AudioMixer of its own, not yet
\* made: the gain in 1/100 and the contexts given to the two initialize
\* calls.
MixerContexts == {1, 2}
MixerInputs ==
    [fn : {"AudioMixer"}, done : {FALSE}, gainValue : MasterGainValues,
     context : MixerContexts, nextContext : MixerContexts]

PureInputs ==
    GainInputs \cup RateInputs \cup SmoothingInputs \cup PositionInputs
        \cup TouchInputs \cup RandomInputs \cup RenderInputs
        \cup MasterGainInputs \cup MixerInputs \cup TouchHitInputs

InitPure ==
    /\ InitEngine
    /\ probe \in PureInputs

\* The probe with the call made and its results recorded.
Applied(results) ==
    [k \in DOMAIN probe \cup DOMAIN results |->
        IF k = "done" THEN TRUE
        ELSE IF k \in DOMAIN results THEN results[k] ELSE probe[k]]

\* computeGain is called, and play and updateStroke are called with a
\* request of the same values.
ComputeGain ==
    /\ probe.fn = "computeGain"
    /\ ~probe.done
    /\ LET request ==
               ProbeRequest("whisper", probe.baseGain, probe.intensity,
                            probe.gesture, probe.strokeSpeed, 0, 0, 0)
       IN  probe' =
               Applied([result |->
                            computeGain(probe.baseGain, probe.intensity,
                                        probe.gesture, probe.strokeSpeed),
                        played |-> PlayedGain(request),
                        stroked |-> StrokedGain(request)])
    /\ UNCHANGED engineVars

\* computePlaybackRate is called.
ComputePlaybackRate ==
    /\ probe.fn = "computePlaybackRate"
    /\ ~probe.done
    /\ probe' =
           Applied([result |->
                        computePlaybackRate(probe.category, probe.gesture,
                                            probe.strokeSpeed)])
    /\ UNCHANGED engineVars

\* The panner of the session updateStroke leaves on a new engine.
StrokedPanner(request) ==
    LET e == updateStroke(NewEngine, request, "running").e
    IN  e.panners[e.activeStrokeSession.pannerNode]

\* computePositionSmoothing is called, and updateStroke is called with a
\* request of the same speed.
ComputePositionSmoothing ==
    /\ probe.fn = "computePositionSmoothing"
    /\ ~probe.done
    /\ probe' =
           Applied([result |-> computePositionSmoothing(probe.strokeSpeed),
                    stroked |->
                        StrokedPanner(ProbeRequest("whisper", 36, 100, "drag",
                                                   probe.strokeSpeed,
                                                   0, 0, 0))])
    /\ UNCHANGED engineVars

\* The panner play connects on a new engine, the panner of the session
\* getOrCreateStrokeSession creates, and the panner of a session after a
\* second updateStroke of the same sound.
PlayedPanner(request) ==
    LET e == play(NewEngine, request, "running").e
    IN  e.panners[e.gains[e.sources[1].out.id].out.id]
CreatedPanner(sound) ==
    LET e1 == getOrCreateContext(NewEngine, "running")
        e == getOrCreateStrokeSession(e1, e1.audioContext, sound,
                                      "running").e
    IN  e.panners[e.activeStrokeSession.pannerNode]
RestrokedPanner(first, second) ==
    LET e1 == updateStroke(NewEngine, first, "running").e
        e == updateStroke(e1, second, "running").e
    IN  e.panners[e.activeStrokeSession.pannerNode]

\* play and updateStroke are called with a request of the position, the
\* latter on a new session and on the session of an earlier request.
ApplyPannerValues ==
    /\ probe.fn = "applyPannerValues"
    /\ ~probe.done
    /\ LET request ==
               ProbeRequest("whisper", 36, 100, "drag", 420,
                            probe.x, probe.y, probe.z)
           earlier ==
               ProbeRequest("whisper", 36, 100, "drag", 420,
                            -probe.z, probe.x, -probe.y)
       IN  probe' =
               Applied([played |-> PlayedPanner(request),
                        created |-> CreatedPanner(request.sound),
                        stroked |-> StrokedPanner(request),
                        restroked |-> RestrokedPanner(earlier, request)])
    /\ UNCHANGED engineVars

\* touchToAudioPosition is called.
TouchToAudioPosition ==
    /\ probe.fn = "touchToAudioPosition"
    /\ ~probe.done
    /\ probe' =
           Applied([result |->
                        touchToAudioPosition(probe.intersectPoint,
                                             probe.headCenter,
                                             probe.headQuaternion)])
    /\ UNCHANGED engineVars

\* buildTouchHit on a mesh whose name maps to head_core: the region comes
\* from the head-local point, which for an unrotated, unscaled head at the
\* origin is the world point; the hit's point is then given to
\* touchToAudioPosition.
BuildTouchHit ==
    /\ probe.fn = "buildTouchHit"
    /\ ~probe.done
    /\ LET localPoint == probe.worldPoint
       IN  probe' =
               Applied([region |-> mapLocalPointToRegion(localPoint),
                        position |->
                            touchToAudioPosition(
                                probe.worldPoint,
                                [x |-> 0, y |-> 0, z |-> 0], Unrotated)])
    /\ UNCHANGED engineVars

\* createRandom is called twice: two generators, none advanced yet.
CreateRandom ==
    /\ probe.fn = "createRandom"
    /\ ~probe.done
    /\ probe' =
           Applied([a |-> createRandom(probe.seedA), valuesA |-> <<>>,
                    b |-> createRandom(probe.seedB), valuesB |-> <<>>])
    /\ UNCHANGED engineVars

\* One of the two generators is called once.
Random ==
    /\ probe.fn = "createRandom"
    /\ probe.done
    /\ \/ /\ Len(probe.valuesA) < MaxDraws
          /\ \E r \in {random(probe.a)} :
                 probe' = [probe EXCEPT !.a = r.generator,
                                        !.valuesA = Append(@, r.value)]
       \/ /\ Len(probe.valuesB) < MaxDraws
          /\ \E r \in {random(probe.b)} :
                 probe' = [probe EXCEPT !.b = r.generator,
                                        !.valuesB = Append(@, r.value)]
    /\ UNCHANGED engineVars

\* One call of renderSynthBuffer: its arguments, whether it threw and the
\* channel data of the buffer it returned.
Rendered(sampleRate, sound) ==
    [sound |-> sound, sampleRate |-> sampleRate,
     threw |-> renderSynthBufferThrows(sound),
     samples |-> IF renderSynthBufferThrows(sound)
                   THEN <<>> ELSE channelData(sampleRate, sound)]

\* renderSynthBuffer is called for the first time.
RenderSynthBuffer ==
    /\ probe.fn = "renderSynthBuffer"
    /\ ~probe.done
    /\ probe' =
           Applied([renders |-> <<Rendered(probe.sampleRate, probe.sound)>>])
    /\ UNCHANGED engineVars

\* renderSynthBuffer is called again with the context, for any descriptor.
RenderSynthBufferAgain ==
    /\ probe.fn = "renderSynthBuffer"
    /\ probe.done
    /\ Len(probe.renders) < MaxRenders
    /\ \E sound \in RenderSounds :
           probe' = [probe EXCEPT
                        !.renders =
                            Append(@, Rendered(probe.sampleRate, sound))]
    /\ UNCHANGED engineVars

\* setMasterGain is called on a new engine, AudioMixer.initialize is called
\* again, and setMasterGain is called with the next value.
SetMasterGainTwice ==
    /\ probe.fn = "setMasterGain"
    /\ ~probe.done
    /\ LET first == setMasterGain(NewEngine, probe.gainValue, "running")
           again == mixerInitialize(first, first.audioContext)
           second == setMasterGain(again, probe.nextValue, "running")
       IN  probe' = Applied([first |-> first, again |-> again,
                             second |-> second])
    /\ UNCHANGED engineVars

\* A new AudioMixer, with two contexts constructed: setMasterGain is called
\* before initialize, then initialize, dispose, setMasterGain again and
\* initialize again.
MixerLifecycle ==
    /\ probe.fn = "AudioMixer"
    /\ ~probe.done
    /\ LET context == [state |-> "running", resumeRequested |-> FALSE,
                       closeCalls |-> 0]
           new == [NewEngine EXCEPT !.contexts = <<context, context>>]
           early == mixerSetMasterGain(new, probe.gainValue)
           first == mixerInitialize(early, probe.context)
           disposed == mixerDispose(first)
           late == mixerSetMasterGain(disposed, probe.gainValue)
           second == mixerInitialize(late, probe.nextContext)
       IN  probe' = Applied([new |-> new, early |-> early,
                             earlyThrew |-> mixerSetMasterGainThrows(new),
                             first |-> first, disposed |-> disposed,
                             late |-> late,
                             lateThrew |-> mixerSetMasterGainThrows(disposed),
                             second |-> second])
    /\ UNCHANGED engineVars

NextPure ==
    \/ ComputeGain
    \/ ComputePlaybackRate
    \/ ComputePositionSmoothing
    \/ ApplyPannerValues
    \/ TouchToAudioPosition
    \/ CreateRandom
    \/ Random
    \/ RenderSynthBuffer
    \/ RenderSynthBufferAgain
    \/ SetMasterGainTwice
    \/ MixerLifecycle
    \/ BuildTouchHit

SpecPure == InitPure /\ [][NextPure]_vars

\* ---------------------------------------------------------------- App wiring

\* The sound selected in the palette with its trigger mode, and the payloads
\* the scene delivers: gesture, position in 1/10 and speed in px/s.
Selections ==
    {[sound |-> ScratchGentle, triggerMode |-> "both"],
     [sound |-> WhisperSoft, triggerMode |-> "drag"],
     [sound |-> WhisperSoft, triggerMode |-> "tap"],
     [sound |-> UserSound, triggerMode |-> "both"]}
TapPayloads ==
    {[gesture |-> "tap", position |-> [x |-> -8, y |-> 0, z |-> 1],
      speedPxPerSecond |-> 0],
     [gesture |-> "tap", position |-> [x |-> 12, y |-> -3, z |-> 4],
      speedPxPerSecond |-> 0]}
DragPayloads ==
    {[gesture |-> "drag", position |-> [x |-> -30, y |-> 20, z |-> 26],
      speedPxPerSecond |-> 700],
     [gesture |-> "drag", position |-> [x |-> 5, y |-> 0, z |-> 2],
      speedPxPerSecond |-> 420]}

\* gestureToIntensity, in 1/100.
gestureToIntensity(gesture) == IF gesture = "drag" THEN 85 ELSE 100

\* The App with a sound selected: whether a pointer is down on the model,
\* whether gesture end has been delivered with no drag trigger delivered
\* since, and the calls of playInteractionSound that await resumeContext(),
\* in call order.
NewApp(selected) ==
    [fn |-> "App", selected |-> selected, pointerDown |-> FALSE,
     gestureEnded |-> FALSE, awaiting |-> <<>>]

\* playInteractionSound past its await, on a running context: nothing for a
\* gesture the trigger mode excludes, else updateStroke for a drag and play
\* for a tap (an error rejects the promise, which nobody awaits).
playInteractionSoundResumed(e, selected, payload) ==
    LET request == MkRequest(selected.sound, payload.position.x,
                             payload.position.y, payload.position.z,
                             gestureToIntensity(payload.gesture),
                             payload.gesture, payload.speedPxPerSecond)
        isGestureAllowed ==
            \/ selected.triggerMode = "both"
            \/ selected.triggerMode = "tap" /\ payload.gesture = "tap"
            \/ selected.triggerMode = "drag" /\ payload.gesture = "drag"
    IN  IF ~isGestureAllowed THEN e
        ELSE IF payload.gesture = "drag"
          THEN updateStroke(e, request, "running").e
          ELSE play(e, request, "running").e

\* playInteractionSound(payload) up to where it returns or suspends: on a
\* ready engine it runs through; else it calls resumeContext() and awaits
\* it, running on at once when the context is found running and suspended
\* until the resume completes otherwise.
playInteractionSound(app, e, payload, fresh) ==
    IF isReady(e)
      THEN [e |-> playInteractionSoundResumed(e, app.selected, payload),
            awaiting |-> app.awaiting]
      ELSE LET e1 == resumeContext(e, fresh)
           IN  IF isReady(e1)
                 THEN [e |-> playInteractionSoundResumed(e1, app.selected,
                                                         payload),
                       awaiting |-> app.awaiting]
                 ELSE [e |-> e1, awaiting |-> Append(app.awaiting, payload)]

\* The suspended calls run on, in call order.
RECURSIVE resumeAll(_, _, _)
resumeAll(e, selected, awaiting) ==
    IF awaiting = <<>>
      THEN e
      ELSE resumeAll(playInteractionSoundResumed(e, selected, Head(awaiting)),
                     selected, Tail(awaiting))

InitApp ==
    /\ InitEngine
    /\ probe \in {NewApp(selected) : selected \in Selections}

\* pointerdown on the model: TouchHandler emits a tap, handleSceneTrigger
\* calls playInteractionSound.
PointerDown ==
    /\ calls < MaxCalls
    /\ ~probe.pointerDown
    /\ \E fresh \in FreshStates(Engine), payload \in TapPayloads :
        \E r \in {playInteractionSound(probe, Engine, payload, fresh)} :
            /\ Moves(r.e)
            /\ lastCall' = Call("pointerdown", probe.selected.sound.id, FALSE)
            /\ probe' = [probe EXCEPT !.pointerDown = TRUE,
                                      !.awaiting = r.awaiting]

\* pointermove far and late enough while the pointer is down: TouchHandler
\* emits a drag trigger.
PointerMove ==
    /\ calls < MaxCalls
    /\ probe.pointerDown
    /\ \E fresh \in FreshStates(Engine), payload \in DragPayloads :
        \E r \in {playInteractionSound(probe, Engine, payload, fresh)} :
            /\ Moves(r.e)
            /\ lastCall' = Call("pointermove", probe.selected.sound.id, FALSE)
            /\ probe' = [probe EXCEPT !.gestureEnded = FALSE,
                                      !.awaiting = r.awaiting]

\* pointerup or pointercancel: onGestureEnd, handleStrokeEnd, endStroke().
PointerUp ==
    /\ calls < MaxCalls
    /\ probe.pointerDown
    /\ \E e \in {endStroke(Engine)} :
        /\ Moves(e)
        /\ lastCall' = Call("pointerup", "", FALSE)
        /\ probe' = [probe EXCEPT !.pointerDown = FALSE,
                                  !.gestureEnded = TRUE]

\* The platform completes the requested resume of the context; the promises
\* of resumeContext() resolve and the suspended calls run on.
ResumeSettled ==
    /\ audioContext # 0
    /\ contexts[audioContext].state = "suspended"
    /\ contexts[audioContext].resumeRequested
    /\ LET running == [Engine EXCEPT
                          !.contexts[audioContext].state = "running",
                          !.contexts[audioContext].resumeRequested = FALSE]
       IN  \E e \in {resumeAll(running, probe.selected, probe.awaiting)} :
               /\ Moves(e)
               /\ lastCall' = Call("resumed", "", FALSE)
               /\ probe' = [probe EXCEPT !.awaiting = <<>>]

NextApp ==
    \/ PointerDown
    \/ PointerMove
    \/ PointerUp
    \/ ResumeSettled

SpecApp == InitApp /\ [][NextApp]_vars

\* ------------------------------------------------------------ ExportManager

\* The blobs given to decodeToAudioBuffer: encoded audio, bytes that are no
\* audio, and a blob whose bytes cannot be read.
Blobs == {"audio", "corrupt", "unreadable"}

\* The calls of decodeToAudioBuffer made so far and the temporary contexts
\* they constructed; supported: window.AudioContext is defined.  A call is at
\* one of its awaits (pc) or settled, holds the context it constructed (0:
\* none) and the outcome of decodeAudioData (decoded), and settles resolved
\* with the buffer or rejected with an error.
NoDecodes(supported) ==
    [fn |-> "decodeToAudioBuffer", supported |-> supported, decodes |-> <<>>,
     contexts |-> <<>>]

Settled(decode, settled, error) ==
    [decode EXCEPT !.pc = "settled", !.settled = settled, !.error = error]

\* decodeToAudioBuffer(blob) up to its first await: rejected when
\* window.AudioContext is undefined, else awaiting blob.arrayBuffer().
decodeToAudioBuffer(d, blob) ==
    LET decode == [blob |-> blob, pc |-> "arrayBuffer", context |-> 0,
                   decoded |-> "none", settled |-> "pending", error |-> ""]
    IN  [d EXCEPT !.decodes =
                      Append(@, IF d.supported
                                  THEN decode
                                  ELSE Settled(decode, "rejected",
                                               "unsupported"))]

\* blob.arrayBuffer() has settled for call i: a rejection, or a throwing
\* constructor, rejects the call; else the context is constructed and
\* decodeAudioData awaited.
arrayBufferSettled(d, i, constructed) ==
    IF d.decodes[i].blob = "unreadable"
      THEN [d EXCEPT !.decodes[i] = Settled(@, "rejected", "read")]
    ELSE IF ~constructed
      THEN [d EXCEPT !.decodes[i] = Settled(@, "rejected", "construct")]
    ELSE [d EXCEPT !.contexts = Append(@, [state |-> "running",
                                          closeCalls |-> 0]),
                   !.decodes[i].context = Len(d.contexts) + 1,
                   !.decodes[i].pc = "decodeAudioData"]

\* A continuation that closes the context only after a successful decode.
decodeAudioDataSettledCloseOnSuccess(d, i) ==
    IF d.decodes[i].blob = "audio"
      THEN [d EXCEPT !.decodes[i].decoded = "buffer",
                     !.decodes[i].pc = "close",
                     !.contexts[d.decodes[i].context].closeCalls = @ + 1]
      ELSE [d EXCEPT !.decodes[i] =
                         Settled([@ EXCEPT !.decoded = "error"], "rejected",
                                 "decode")]

\* decodeAudioData has settled for call i, with a buffer or an error: either
\* way the finally block calls context.close() and awaits it.
decodeAudioDataSettled(d, i) ==
    [d EXCEPT !.decodes[i].decoded =
                  IF d.decodes[i].blob = "audio" THEN "buffer" ELSE "error",
              !.decodes[i].pc = "close",
              !.contexts[d.decodes[i].context].closeCalls = @ + 1]

\* context.close() has resolved for call i: the context is closed and the
\* call settles with the outcome of decodeAudioData.
closeSettled(d, i) ==
    [d EXCEPT !.contexts[d.decodes[i].context].state = "closed",
              !.decodes[i] =
                  IF @.decoded = "buffer"
                    THEN Settled(@, "resolved", "")
                    ELSE Settled(@, "rejected", "decode")]

InitDecode ==
    /\ InitEngine
    /\ probe \in {NoDecodes(supported) : supported \in BOOLEAN}

DecodeToAudioBuffer ==
    /\ Len(probe.decodes) < MaxDecodes
    /\ \E blob \in Blobs : probe' = decodeToAudioBuffer(probe, blob)
    /\ UNCHANGED engineVars

ArrayBufferSettled ==
    /\ \E i \in 1..Len(probe.decodes), constructed \in BOOLEAN :
          /\ probe.decodes[i].pc = "arrayBuffer"
          /\ probe' = arrayBufferSettled(probe, i, constructed)
    /\ UNCHANGED engineVars

DecodeAudioDataSettled ==
    /\ \E i \in 1..Len(probe.decodes) :
          /\ probe.decodes[i].pc = "decodeAudioData"
          /\ probe' = decodeAudioDataSettled(probe, i)
    /\ UNCHANGED engineVars

CloseSettled ==
    /\ \E i \in 1..Len(probe.decodes) :
          /\ probe.decodes[i].pc = "close"
          /\ probe' = closeSettled(probe, i)
    /\ UNCHANGED engineVars

NextDecode ==
    \/ DecodeToAudioBuffer
    \/ ArrayBufferSettled
    \/ DecodeAudioDataSettled
    \/ CloseSettled

SpecDecode == InitDecode /\ [][NextDecode]_vars

\* ------------------------------------------------------------------ Recorder

\* A Recorder after construction.  mediaRecorder and mediaStream are the
\* fields (0: null), recorders and streams the MediaRecorder and MediaStream
\* objects created so far; starts counts the start() calls that await
\* getUserMedia, stops lists the recorders whose stop event a stop() call
\* awaits; levelListener: the field holds a listener; meterContext and
\* meters: the field and the metering contexts created; made counts the
\* calls and last names the latest; tornDown: stop(), cancel() or dispose()
\* has returned and start() has not been called since.
NewRecorder ==
    [fn |-> "Recorder", mediaRecorder |-> 0, mediaStream |-> 0,
     recorders |-> <<>>, streams |-> <<>>, starts |-> 0, stops |-> <<>>,
     levelListener |-> FALSE, meterContext |-> 0, meters |-> <<>>,
     made |-> 0, last |-> "new", tornDown |-> FALSE]

\* isRecording().
isRecording(r) ==
    r.mediaRecorder # 0 /\ r.recorders[r.mediaRecorder].state = "recording"

\* cleanupMediaResources(): close and forget the metering context, forget
\* the listener and the recorder, stop the tracks of the stream the field
\* holds and forget it.
cleanupMediaResources(r) ==
    [r EXCEPT !.meters = IF r.meterContext # 0
                           THEN [@ EXCEPT ![r.meterContext] = "closed"]
                           ELSE @,
              !.meterContext = 0,
              !.levelListener = FALSE,
              !.mediaRecorder = 0,
              !.streams = IF r.mediaStream # 0
                            THEN [@ EXCEPT ![r.mediaStream].live = FALSE]
                            ELSE @,
              !.mediaStream = 0]

\* cancel(): stop the recorder the field holds if it records, then clean up.
cancel(r) ==
    cleanupMediaResources(
        IF isRecording(r)
          THEN [r EXCEPT !.recorders[r.mediaRecorder].state = "inactive"]
          ELSE r)

InitRecorder ==
    /\ InitEngine
    /\ probe = NewRecorder

\* start(options) is called, with or without onLevel: it throws while
\* recording, else stores the listener and awaits getUserMedia.
RecorderStart ==
    /\ probe.made < MaxRecorderCalls
    /\ \E onLevel \in BOOLEAN :
          probe' = IF isRecording(probe)
                     THEN [probe EXCEPT !.made = @ + 1, !.last = "start"]
                     ELSE [probe EXCEPT !.made = @ + 1, !.last = "start",
                                        !.starts = @ + 1,
                                        !.levelListener = onLevel,
                                        !.tornDown = FALSE]
    /\ UNCHANGED engineVars

\* getUserMedia settles for a start() call: a rejection rejects the call;
\* else the stream is stored in the field, a MediaRecorder is created on it
\* and stored, the level meter gets a context if the field holds a listener,
\* and the recorder is started.
GetUserMediaSettled ==
    /\ probe.starts > 0
    /\ \E granted \in BOOLEAN :
          probe' =
              IF ~granted
                THEN [probe EXCEPT !.starts = @ - 1]
                ELSE [probe EXCEPT
                        !.starts = @ - 1,
                        !.streams = Append(@, [live |-> TRUE]),
                        !.mediaStream = Len(probe.streams) + 1,
                        !.recorders =
                            Append(@, [state |-> "recording",
                                       stream |-> Len(probe.streams) + 1]),
                        !.mediaRecorder = Len(probe.recorders) + 1,
                        !.meters = IF probe.levelListener
                                     THEN Append(@, "running") ELSE @,
                        !.meterContext = IF probe.levelListener
                                           THEN Len(probe.meters) + 1 ELSE @]
    /\ UNCHANGED engineVars

\* stop() is called: it throws unless the field holds a recorder that
\* records, else stops that recorder and awaits its stop event.
RecorderStop ==
    /\ probe.made < MaxRecorderCalls
    /\ probe' =
           IF isRecording(probe)
             THEN [probe EXCEPT
                     !.made = @ + 1, !.last = "stop",
                     !.recorders[probe.mediaRecorder].state = "inactive",
                     !.stops = Append(@, probe.mediaRecorder)]
             ELSE [probe EXCEPT !.made = @ + 1, !.last = "stop"]
    /\ UNCHANGED engineVars

\* The stop event of a recorder is delivered: the stop() call that awaits it
\* cleans up and returns the blob.
StopEventDelivered ==
    /\ probe.stops # <<>>
    /\ probe' = [cleanupMediaResources(probe) EXCEPT
                    !.stops = Tail(@), !.tornDown = TRUE]
    /\ UNCHANGED engineVars

\* cancel() is called.
RecorderCancel ==
    /\ probe.made < MaxRecorderCalls
    /\ probe' = [cancel(probe) EXCEPT !.made = @ + 1, !.last = "cancel",
                                      !.tornDown = TRUE]
    /\ UNCHANGED engineVars

\* dispose() is called (the App's unmount effect): it cancels.
RecorderDispose ==
    /\ probe.made < MaxRecorderCalls
    /\ probe' = [cancel(probe) EXCEPT !.made = @ + 1, !.last = "dispose",
                                      !.tornDown = TRUE]
    /\ UNCHANGED engineVars

NextRecorder ==
    \/ RecorderStart
    \/ GetUserMediaSettled
    \/ RecorderStop
    \/ StopEventDelivered
    \/ RecorderCancel
    \/ RecorderDispose

SpecRecorder == InitRecorder /\ [][NextRecorder]_vars

\* ------------------------------------------------------------------ claims

\* One request per sound, with a position outside the listener box and a
\* speed above the normalisation range.
ProbeRequests == {MkRequest(s, 30, -20, 26, 85, "drag", 1200) : s \in Sounds}

\* The sources of a role that are started and not scheduled to stop.
StartedNotStopped(e, role) ==
    {i \in 1..Len(e.sources) :
        /\ e.sources[i].role = role
        /\ e.sources[i].startDelay >= 0
        /\ e.sources[i].stopDelay < 0}

\* The session of source s and gain g is scheduled to fade to 0.0001 and stop.
FadeAndStop(e, s, g) ==
    /\ e.sources[s].stopDelay >= 0
    /\ e.gains[g].target = 8200

\* The pool with the given fields of its i-th node blanked.
Except2(pool, i, blank(_)) ==
    [k \in 1..Len(pool) |-> IF k = i THEN blank(pool[k]) ELSE pool[k]]

BlankTarget(node) == [node EXCEPT !.target = 0, !.tau = 0]
BlankRate(node) == [node EXCEPT !.rateTarget = 0, !.rateTau = 0]

\* C1: in every reachable state the stroke sources that are started and not
\* scheduled to stop are exactly the source of the active stroke session, so
\* at most one; and an updateStroke(B) that returns while a session keyed by
\* another id A is active leaves exactly one active session, keyed by B, on
\* a new source, with A's source scheduled to fade and stop.
C1_StrokeExclusive ==
    /\ StartedNotStopped(Engine, "stroke") =
           IF activeStrokeSession = NoStroke
             THEN {} ELSE {activeStrokeSession.sourceNode}
    /\ \A request \in ProbeRequests, fresh \in FreshStates(Engine) :
          LET after == updateStroke(Engine, request, fresh)
              old == activeStrokeSession
          IN  (/\ old # NoStroke
               /\ old.soundId # request.sound.id
               /\ ~after.threw)
              => /\ after.e.activeStrokeSession.soundId = request.sound.id
                 /\ after.e.activeStrokeSession.sourceNode # old.sourceNode
                 /\ StartedNotStopped(after.e, "stroke") =
                        {after.e.activeStrokeSession.sourceNode}
                 /\ FadeAndStop(after.e, old.sourceNode, old.gainNode)

\* updateStroke(A) then updateStroke(B): A's source is stopping, B's active.
C1_Witness ==
    /\ calls = 2
    /\ lastCall.op = "updateStroke" /\ ~lastCall.threw
    /\ Len(sources) = 2
    /\ sources[1].role = "stroke" /\ sources[1].stopDelay = 220
    /\ activeStrokeSession.sourceNode = 2
    /\ activeStrokeSession.soundId = lastCall.id

\* C2: an updateStroke whose sound id keys the active stroke session returns
\* normally and keeps that session: no pool grows, no source is started or
\* stopped, cache and generator are untouched, and the only node fields that
\* change are the targets of the session's gain, playback rate and panner
\* position, which become those of the request.
C2_SameIdStrokeReuse ==
    \A request \in ProbeRequests, fresh \in FreshStates(Engine) :
       LET after == updateStroke(Engine, request, fresh)
           session == activeStrokeSession
       IN  (session # NoStroke /\ session.soundId = request.sound.id)
           => /\ ~after.threw
              /\ after.e.activeStrokeSession = session
              /\ after.e.activeBgmSession = activeBgmSession
              /\ Len(after.e.contexts) = Len(contexts)
              /\ after.e.audioContext = audioContext
              /\ after.e.filters = filters
              /\ after.e.bufferCache = bufferCache
              /\ after.e.synthCalls = synthCalls
              /\ after.e.cacheReads = {}
              /\ Except2(after.e.sources, session.sourceNode, BlankRate) =
                     Except2(sources, session.sourceNode, BlankRate)
              /\ Except2(after.e.gains, session.gainNode, BlankTarget) =
                     Except2(gains, session.gainNode, BlankTarget)
              /\ Except2(after.e.panners, session.pannerNode, BlankTarget) =
                     Except2(panners, session.pannerNode, BlankTarget)
              /\ after.e.gains[session.gainNode].target =
                     computeGain(request.sound.defaultGain, request.intensity,
                                 "drag", request.strokeSpeed)
              /\ after.e.sources[session.sourceNode].rateTarget =
                     computePlaybackRate(request.sound.category, "drag",
                                         request.strokeSpeed)
              /\ after.e.panners[session.pannerNode].target =
                     [x |-> 25, y |-> -16, z |-> 25]

\* updateStroke(WhisperSoft) then updateStroke(WhisperSample), same id: one
\* source, playing the first buffer at the rate target of the second.
C2_Witness ==
    /\ calls = 2
    /\ lastCall.op = "updateStroke" /\ lastCall.repeated
    /\ Len(sources) = 1
    /\ activeStrokeSession.sourceNode = 1
    /\ sources[1].buffer = Buffer("whisper-soft", 1)
    /\ sources[1].rateTarget = computePlaybackRate("user", "drag", 1200)

\* C3: endStroke() leaves no active stroke session in every reachable state:
\* the session reference is null, no stroke source is left started and not
\* scheduled to stop, and the source of the session it ended has a stop
\* scheduled.
C3_EndStrokeLeavesNone ==
    /\ LET after == endStroke(Engine)
       IN  /\ after.activeStrokeSession = NoStroke
           /\ StartedNotStopped(after, "stroke") = {}
           /\ activeStrokeSession # NoStroke
              => after.sources[activeStrokeSession.sourceNode].stopDelay >= 0
    /\ lastCall.op = "endStroke"
       => /\ activeStrokeSession = NoStroke
          /\ StartedNotStopped(Engine, "stroke") = {}

\* updateStroke then endStroke: the one stroke source stops in 220 ms.
C3_Witness ==
    /\ calls = 2
    /\ lastCall.op = "endStroke"
    /\ Len(sources) = 1
    /\ sources[1].role = "stroke" /\ sources[1].stopDelay = 220
    /\ activeStrokeSession = NoStroke

\* C4: endStroke() without an active stroke session changes nothing of the
\* engine or its nodes, in every reachable state, so also before a context
\* exists, right after another endStroke() and right after dispose().
C4_EndStrokeIdempotent ==
    /\ activeStrokeSession = NoStroke => endStroke(Engine) = Engine
    /\ endStroke(endStroke(Engine)) = endStroke(Engine)
    /\ endStroke(dispose(Engine)) = dispose(Engine)
    /\ endStroke(NewEngine) = NewEngine

\* updateStroke, endStroke, endStroke: the second endStroke found no session.
C4_Witness ==
    /\ calls = 3
    /\ lastCall.op = "endStroke" /\ lastCall.repeated
    /\ Len(sources) = 1
    /\ sources[1].role = "stroke" /\ sources[1].stopDelay = 220
    /\ activeStrokeSession = NoStroke

\* Ambient gains inside, at the ends of and outside [0, 1.2], in 1/100.
ProbeGains == {-10, 0, 33, 120, 150}

\* C5: in every reachable state the ambient sources that are started and not
\* scheduled to stop are exactly the source of the active ambient session,
\* so at most one; and a setAmbientTrack(S, g) that returns, S not null and
\* not the id of the active session, leaves exactly one active session,
\* keyed by S.id, on a new looping source routed source -> low-pass filter
\* -> gain -> master, with the old session scheduled to fade and stop.
C5_AmbientExclusive ==
    /\ StartedNotStopped(Engine, "bgm") =
           IF activeBgmSession = NoBgm
             THEN {} ELSE {activeBgmSession.sourceNode}
    /\ \A sound \in Sounds, fresh \in FreshStates(Engine) :
          LET r == setAmbientTrack(Engine, sound, 33, fresh)
              after == r.e
              old == activeBgmSession
              new == after.activeBgmSession
          IN  (old.soundId # sound.id /\ ~r.threw)
              => /\ new.soundId = sound.id
                 /\ new.sourceNode \notin 1..Len(sources)
                 /\ StartedNotStopped(after, "bgm") = {new.sourceNode}
                 /\ after.sources[new.sourceNode].loop
                 /\ after.sources[new.sourceNode].out =
                        Out("filter", new.filterNode)
                 /\ after.filters[new.filterNode].type = "lowpass"
                 /\ after.filters[new.filterNode].out =
                        Out("gain", new.gainNode)
                 /\ after.masterGainNode # 0
                 /\ after.gains[new.gainNode].out =
                        Out("gain", after.masterGainNode)
                 /\ after.gains[after.masterGainNode].out =
                        Out("destination", after.audioContext)
                 /\ old # NoBgm
                    => FadeAndStop(after, old.sourceNode, old.gainNode)

\* setAmbientTrack(S) then setAmbientTrack(T): S's source is stopping.
C5_Witness ==
    /\ calls = 2
    /\ lastCall.op = "setAmbientTrack" /\ ~lastCall.threw
    /\ Len(sources) = 2
    /\ sources[1].role = "bgm" /\ sources[1].stopDelay = 400
    /\ activeBgmSession.sourceNode = 2
    /\ activeBgmSession.soundId = lastCall.id

\* C6: a setAmbientTrack(S, g) whose S.id keys the active ambient session
\* returns normally and only retargets that session's gain to g clamped to
\* [0, 1.2]: the session record and every other node field are unchanged, no
\* pool grows, no source is started or stopped, and cache and generator are
\* untouched.
C6_SameIdAmbientRetarget ==
    \A sound \in Sounds, gainValue \in ProbeGains,
       fresh \in FreshStates(Engine) :
       LET r == setAmbientTrack(Engine, sound, gainValue, fresh)
           after == r.e
           session == activeBgmSession
       IN  (session # NoBgm /\ session.soundId = sound.id)
           => /\ ~r.threw
              /\ after.activeBgmSession = session
              /\ after.activeStrokeSession = activeStrokeSession
              /\ after.audioContext = audioContext
              /\ Len(after.contexts) = Len(contexts)
              /\ after.sources = sources
              /\ after.panners = panners
              /\ after.filters = filters
              /\ Except2(after.gains, session.gainNode, BlankTarget) =
                     Except2(gains, session.gainNode, BlankTarget)
              /\ after.gains[session.gainNode].target =
                     820000 * (IF gainValue < 0 THEN 0
                               ELSE IF gainValue > 120 THEN 120
                               ELSE gainValue)
              /\ after.bufferCache = bufferCache
              /\ after.synthCalls = synthCalls
              /\ after.cacheReads = {}

\* setAmbientTrack(S, .) then setAmbientTrack(S, 1.5): still the one source,
\* its gain heading for 1.2.
C6_Witness ==
    /\ calls = 2
    /\ lastCall.op = "setAmbientTrack" /\ lastCall.repeated
    /\ Len(sources) = 1
    /\ activeBgmSession.sourceNode = 1
    /\ sources[1].stopDelay < 0
    /\ gains[activeBgmSession.gainNode].tau = 80
    /\ gains[activeBgmSession.gainNode].target = 120 * 820000

\* C7: setAmbientTrack(null, g) leaves, for every g and in every reachable
\* state, exactly the state stopAmbientTrack() leaves: no ambient session,
\* no new source, and no context created or touched.
C7_NullAmbientIsStop ==
    \A gainValue \in ProbeGains, fresh \in FreshStates(Engine) :
       LET r == setAmbientTrack(Engine, NullSound, gainValue, fresh)
           after == r.e
       IN  /\ ~r.threw
           /\ after = stopAmbientTrack(Engine)
           /\ after.activeBgmSession = NoBgm
           /\ StartedNotStopped(after, "bgm") = {}
           /\ Len(after.sources) = Len(sources)
           /\ after.audioContext = audioContext
           /\ after.contexts = contexts

\* setAmbientTrack(S, .) then setAmbientTrack(null, .): S's source stops in
\* 400 ms and no second source exists.
C7_Witness ==
    /\ calls = 2
    /\ lastCall.op = "setAmbientTrack" /\ lastCall.id = "null"
    /\ Len(sources) = 1
    /\ sources[1].role = "bgm" /\ sources[1].stopDelay = 400
    /\ activeBgmSession = NoBgm

\* C8: the teardown calls are idempotent in every reachable state:
\* stopAmbientTrack() without an ambient session, a second stopAmbientTrack(),
\* dispose() of a new engine, a second dispose() and a second
\* AudioMixer.dispose() change nothing of the engine or its nodes, so they
\* schedule no stop and close no context again.
C8_TeardownIdempotent ==
    /\ activeBgmSession = NoBgm => stopAmbientTrack(Engine) = Engine
    /\ stopAmbientTrack(stopAmbientTrack(Engine)) = stopAmbientTrack(Engine)
    /\ dispose(NewEngine) = NewEngine
    /\ dispose(dispose(Engine)) = dispose(Engine)
    /\ mixerDispose(mixerDispose(Engine)) = mixerDispose(Engine)
    /\ lastCall.op = "dispose" => dispose(Engine) = Engine
    /\ lastCall.op = "stopAmbientTrack" => stopAmbientTrack(Engine) = Engine

\* A session is started, then dispose() twice: the context was closed once
\* and the session's source is stopping.
C8_Witness ==
    /\ calls = 3
    /\ lastCall.op = "dispose" /\ lastCall.repeated
    /\ Len(contexts) = 1 /\ contexts[1].closeCalls = 1
    /\ Len(sources) = 1
    /\ sources[1].role \in {"stroke", "bgm"} /\ sources[1].stopDelay >= 0
    /\ audioContext = 0

\* Every source that plays a synthesized buffer plays the cached buffer of
\* that buffer's sound id.
SynthesizedBuffersShared ==
    \A i \in 1..Len(sources) :
       sources[i].buffer.id \in SoundIds
       => sources[i].buffer = bufferCache[sources[i].buffer.id]

\* A step keeps every cache entry that exists and does not call the
\* generator for its id.
CachedEntriesKept ==
    \A id \in SoundIds :
       bufferCache[id] # NoBuffer
       => /\ bufferCache'[id] = bufferCache[id]
          /\ synthCalls'[id] = synthCalls[id]

\* C9, as stated: over play, updateStroke and setAmbientTrack calls the
\* generator is invoked at most once per sound id and all sources of a
\* synthesized id share one buffer object.
C9_Original ==
    /\ \A id \in SoundIds : synthCalls[id] <= 1
    /\ SynthesizedBuffersShared

\* C9, amended: over play, updateStroke and setAmbientTrack calls, once a
\* synthesis for a sound id has succeeded its cache entry is never replaced
\* or removed and the generator is never invoked for that id again, and
\* every source that plays a synthesized buffer plays the cached object of
\* its id.  (A synthesis that throws caches nothing, so the generator is
\* invoked again by the next request for the id.)
C9_CacheStable ==
    /\ [](/\ SynthesizedBuffersShared
          /\ \A id \in SoundIds :
                bufferCache[id] # NoBuffer => bufferCache[id].id = id)
    /\ [][CachedEntriesKept]_vars

\* Two sources share the one buffer synthesized for whisper-soft.
C9_Witness ==
    /\ Len(sources) >= 2
    /\ sources[1].buffer = Buffer("whisper-soft", 1)
    /\ sources[2].buffer = Buffer("whisper-soft", 1)
    /\ synthCalls["whisper-soft"] = 1
    /\ bufferCache["whisper-soft"] = Buffer("whisper-soft", 1)

\* The sound descriptors that carry a buffer.
SuppliedSounds == {s \in Sounds : s.audioBuffer # NoBuffer}

\* What play, updateStroke and setAmbientTrack do with a descriptor that
\* carries a buffer: the call returns, the generator is not invoked, the
\* cache is neither read nor written, and the source of the request plays
\* the supplied buffer; when not strict, a session that is already keyed by
\* the sound id keeps the buffer it plays.
SuppliedBufferUsed(sound, fresh, strict) ==
    LET p == play(Engine, MkRequest(sound, 0, 0, 0, 100, "tap", 0), fresh)
        u == updateStroke(Engine,
                              MkRequest(sound, 0, 0, 0, 85, "drag", 0), fresh)
        a == setAmbientTrack(Engine, sound, 33, fresh)
        Untouched(r) ==
            /\ ~r.threw
            /\ r.e.synthCalls = synthCalls
            /\ r.e.bufferCache = bufferCache
            /\ r.e.cacheReads = {}
    IN  /\ Untouched(p)
        /\ Len(p.e.sources) = Len(sources) + 1
        /\ p.e.sources[Len(p.e.sources)].buffer = sound.audioBuffer
        /\ Untouched(u)
        /\ u.e.activeStrokeSession.soundId = sound.id
        /\ u.e.sources[u.e.activeStrokeSession.sourceNode].buffer =
              IF ~strict /\ activeStrokeSession.soundId = sound.id
                THEN sources[activeStrokeSession.sourceNode].buffer
                ELSE sound.audioBuffer
        /\ Untouched(a)
        /\ a.e.activeBgmSession.soundId = sound.id
        /\ a.e.sources[a.e.activeBgmSession.sourceNode].buffer =
              IF ~strict /\ activeBgmSession.soundId = sound.id
                THEN sources[activeBgmSession.sourceNode].buffer
                ELSE sound.audioBuffer

\* C10, as stated: every play, updateStroke and setAmbientTrack request
\* whose descriptor carries a buffer plays exactly that buffer, without
\* generator call, cache read or cache write.
C10_Original ==
    \A sound \in SuppliedSounds, fresh \in FreshStates(Engine) :
       SuppliedBufferUsed(sound, fresh, TRUE)

\* C10, amended: for a descriptor that carries a buffer, every play and
\* every updateStroke or setAmbientTrack that starts a session plays exactly
\* that buffer, also when a synthesized buffer of the same id is cached; an
\* updateStroke or setAmbientTrack whose sound id keys the active session
\* keeps the buffer that session plays; in all cases the generator is not
\* invoked and the cache is neither read nor written.
C10_SuppliedBufferWins ==
    \A sound \in SuppliedSounds, fresh \in FreshStates(Engine) :
       SuppliedBufferUsed(sound, fresh, FALSE)

\* play(WhisperSoft) caches a synthesized buffer; updateStroke(WhisperSample),
\* same id, then starts a session on the supplied buffer.
C10_Witness ==
    /\ calls = 2
    /\ lastCall.op = "updateStroke" /\ lastCall.id = "whisper-soft"
    /\ bufferCache["whisper-soft"] = Buffer("whisper-soft", 1)
    /\ synthCalls["whisper-soft"] = 1
    /\ cacheReads = {}
    /\ activeStrokeSession.sourceNode = 2
    /\ sources[2].buffer = WhisperSample.audioBuffer

\* What holds of e right after a dispose() of the engine in state before.
Disposed(before, e) ==
    /\ e.activeStrokeSession = NoStroke
    /\ e.activeBgmSession = NoBgm
    /\ StartedNotStopped(e, "stroke") = {}
    /\ StartedNotStopped(e, "bgm") = {}
    /\ before.activeStrokeSession # NoStroke
       => e.sources[before.activeStrokeSession.sourceNode].stopDelay >= 0
    /\ before.activeBgmSession # NoBgm
       => e.sources[before.activeBgmSession.sourceNode].stopDelay >= 0
    /\ \A id \in SoundIds : e.bufferCache[id] = NoBuffer
    /\ e.audioContext = 0
    /\ before.audioContext # 0
       => /\ e.contexts[before.audioContext].closeCalls >= 1
          /\ e.contexts[before.audioContext].state = "closed"
    /\ e.masterGainNode = 0
    /\ e.mixerNode = 0

\* C11: right after dispose(), from every reachable state: no stroke and no
\* ambient session is active and the sources of those that were have a stop
\* scheduled, the buffer cache is empty, the context was asked to close and
\* is no longer referenced, and the engine's and the mixer's master gain
\* references are null.
C11_DisposePostState ==
    /\ Disposed(Engine, dispose(Engine))
    /\ lastCall.op = "dispose"
       => /\ activeStrokeSession = NoStroke /\ activeBgmSession = NoBgm
          /\ StartedNotStopped(Engine, "stroke") = {}
          /\ StartedNotStopped(Engine, "bgm") = {}
          /\ \A id \in SoundIds : bufferCache[id] = NoBuffer
          /\ audioContext = 0 /\ masterGainNode = 0 /\ mixerNode = 0
          /\ \A c \in 1..Len(contexts) : contexts[c].closeCalls >= 1

\* updateStroke, setAmbientTrack, dispose: both sessions' sources stop, the
\* two synthesized buffers are gone from the cache, the context is closed.
C11_Witness ==
    /\ calls = 3
    /\ lastCall.op = "dispose"
    /\ Len(sources) = 2
    /\ {sources[1].role, sources[2].role} = {"stroke", "bgm"}
    /\ sources[1].stopDelay >= 0 /\ sources[2].stopDelay >= 0
    /\ \E id \in SoundIds : synthCalls[id] >= 1
    /\ Len(contexts) = 1 /\ contexts[1].closeCalls = 1
    /\ audioContext = 0 /\ mixerNode = 0

\* C12: once dispose() has been called, the engine never again holds a
\* context, a master gain node, an active session or a cached buffer,
\* whatever facade call follows.
C12_DisposeTerminal ==
    lastCall.disposed
    => /\ audioContext = 0
       /\ masterGainNode = 0 /\ mixerNode = 0
       /\ activeStrokeSession = NoStroke /\ activeBgmSession = NoBgm
       /\ \A id \in SoundIds : bufferCache[id] = NoBuffer

\* The gain nodes connected to a context's destination: the master nodes.
MasterNodes(pool) ==
    {g \in 1..Len(pool) : pool[g].out.kind = "destination"}

\* The last call is one of those that need the context.
CreatorCalled(call) ==
    \/ call.op \in {"resumeContext", "setMasterGain", "play", "updateStroke"}
    \/ call.op = "setAmbientTrack" /\ call.id # "null"

\* A facade call made while dispose() was never called: with a context, it
\* keeps context and master node; without one, it creates both when it is a
\* resumeContext, setMasterGain, play, updateStroke or setAmbientTrack of a
\* sound, and creates nothing otherwise.
LazyInitStep ==
    (calls' = calls + 1 /\ ~lastCall'.disposed)
    => /\ audioContext # 0
          => /\ audioContext' = audioContext
             /\ masterGainNode' = masterGainNode
             /\ Len(contexts') = Len(contexts)
             /\ MasterNodes(gains') = MasterNodes(gains)
       /\ (audioContext = 0 /\ CreatorCalled(lastCall'))
          => /\ audioContext' = 1 /\ Len(contexts') = 1
             /\ masterGainNode' # 0
             /\ MasterNodes(gains') = {masterGainNode'}
       /\ (audioContext = 0 /\ ~CreatorCalled(lastCall'))
          => /\ audioContext' = 0 /\ contexts' = contexts
             /\ masterGainNode' = 0 /\ gains' = gains

InGainBounds(gain) == 820000 <= gain /\ gain <= 98400000

\* C14 as stated: computeGain returns a value in [0.01, 1.2], and every gain
\* value and gain target that play and updateStroke apply to a session lies
\* in [0.01, 1.2].
C14_Original ==
    (probe.fn = "computeGain" /\ probe.done)
    => /\ InGainBounds(probe.result)
       /\ InGainBounds(probe.played.value)
       /\ InGainBounds(probe.stroked.value)
       /\ InGainBounds(probe.stroked.target)

\* C14: for every base gain, intensity, gesture and stroke speed, negative,
\* zero and huge ones included, computeGain returns a value in [0.01, 1.2],
\* and so are the gain value play gives its gain node and the gain target
\* updateStroke gives its session for a request of these values; the gain
\* value updateStroke gives a session it creates is 0.0001.
C14_GainBounds ==
    (probe.fn = "computeGain" /\ probe.done)
    => /\ InGainBounds(probe.result)
       /\ InGainBounds(probe.played.value)
       /\ InGainBounds(probe.stroked.target)
       /\ probe.stroked.value = 8200

\* A drag at 1,000,000 px/s with base gain 3 and intensity 2 is cut to 1.2; a
\* negative base gain is raised to 0.01.
C14_Witness ==
    /\ probe.fn = "computeGain"
    /\ probe.done
    /\ \/ /\ probe.strokeSpeed = 1000000 /\ probe.gesture = "drag"
          /\ probe.baseGain = 300 /\ probe.intensity = 200
          /\ probe.result = 98400000 /\ probe.played.value = 98400000
       \/ /\ probe.baseGain < 0 /\ probe.intensity > 0
          /\ probe.result = 820000 /\ probe.stroked.target = 820000

\* The reference formula of the gain in 1/82,000,000: the product of base
\* gain and intensity (each in 1/100) is worth 8,200 per unit for a tap and
\* 7 * (492 + speed), with 492 + speed held in [492, 1189], for a drag.
RefSpeedScale(strokeSpeed) ==
    IF strokeSpeed <= 0 THEN 492
    ELSE IF strokeSpeed >= 697 THEN 1189
    ELSE 492 + strokeSpeed
RefUnclampedGain(baseGain, intensity, gesture, strokeSpeed) ==
    IF gesture = "tap"
      THEN baseGain * intensity * 8200
      ELSE baseGain * intensity * 7 * RefSpeedScale(strokeSpeed)
RefGain(baseGain, intensity, gesture, strokeSpeed) ==
    LET raw == RefUnclampedGain(baseGain, intensity, gesture, strokeSpeed)
    IN  IF raw < 820000 THEN 820000
        ELSE IF raw > 98400000 THEN 98400000
        ELSE raw

\* C15: computeGain equals the reference formula; for a tap it does not
\* depend on the stroke speed, and base gain 0.36 at intensity 1.0 gives
\* 0.36; for a drag it does not decrease when the speed grows; play applies
\* the formula of the request's gesture and updateStroke the drag formula
\* whatever the request's gesture says.
C15_GainFormula ==
    (probe.fn = "computeGain" /\ probe.done)
    => /\ probe.result =
              RefGain(probe.baseGain, probe.intensity, probe.gesture,
                      probe.strokeSpeed)
       /\ probe.gesture = "tap"
          => /\ \A v \in StrokeSpeeds :
                    computeGain(probe.baseGain, probe.intensity, "tap", v)
                        = probe.result
             /\ (probe.baseGain = 36 /\ probe.intensity = 100)
                => probe.result = 29520000
       /\ (probe.gesture = "drag" /\ probe.baseGain * probe.intensity >= 0)
          => \A v \in StrokeSpeeds :
                 v >= probe.strokeSpeed
                 => computeGain(probe.baseGain, probe.intensity, "drag", v)
                        >= probe.result
       /\ probe.played.value = probe.result
       /\ probe.stroked.target =
              RefGain(probe.baseGain, probe.intensity, "drag",
                      probe.strokeSpeed)

\* A tap of base gain 0.36 at intensity 1.0 and speed 0 gets 0.36 from
\* computeGain and play, and 0.36 * 0.7 * 0.6 = 0.1512 from updateStroke.
C15_Witness ==
    /\ probe.fn = "computeGain"
    /\ probe.done
    /\ probe.gesture = "tap"
    /\ probe.baseGain = 36
    /\ probe.intensity = 100
    /\ probe.strokeSpeed = 0
    /\ probe.result = 29520000
    /\ probe.played.value = 29520000
    /\ probe.stroked.target = 12398400

\* The reference formula of the playback rate in 1/70,000, the speed term
\* being the speed held in [0, 910] (1.3 * 700).
RefSpeedTerm(strokeSpeed) ==
    IF strokeSpeed < 0 THEN 0
    ELSE IF strokeSpeed > 910 THEN 910
    ELSE strokeSpeed
RefRate(category, gesture, strokeSpeed) ==
    CASE gesture = "tap" /\ category = "tapping" -> 75600
      [] gesture = "tap" /\ category # "tapping" -> 70000
      [] gesture = "drag" /\ category = "ear_cleaning" ->
             57400 + 22 * RefSpeedTerm(strokeSpeed)
      [] gesture = "drag" /\ category = "water" ->
             61600 + 20 * RefSpeedTerm(strokeSpeed)
      [] gesture = "drag" /\ category \notin {"ear_cleaning", "water"} ->
             63000 + 22 * RefSpeedTerm(strokeSpeed)

\* C16: computePlaybackRate equals the reference formula for every category
\* and speed: a tap gets 1.08 for tapping and 1.0 otherwise whatever the
\* speed; a drag gets 0.82 + 0.22 t for ear_cleaning, 0.88 + 0.2 t for water
\* and 0.9 + 0.22 t otherwise, t = clamp(speed / 700, 0, 1.3), so water at
\* speed 700 gets 1.08 and speed 0 gets 0.82, 0.88 and 0.9.
C16_RateFormula ==
    (probe.fn = "computePlaybackRate" /\ probe.done)
    => /\ probe.result =
              RefRate(probe.category, probe.gesture, probe.strokeSpeed)
       /\ probe.gesture = "tap"
          => /\ probe.result =
                    IF probe.category = "tapping" THEN 75600 ELSE 70000
             /\ \A v \in StrokeSpeeds :
                    computePlaybackRate(probe.category, "tap", v)
                        = probe.result
       /\ (probe.gesture = "drag" /\ probe.category = "water"
                                  /\ probe.strokeSpeed = 700)
          => probe.result = 75600
       /\ (probe.gesture = "drag" /\ probe.strokeSpeed = 0)
          => probe.result =
                 IF probe.category = "ear_cleaning" THEN 57400
                 ELSE IF probe.category = "water" THEN 61600
                 ELSE 63000

\* Water dragged at 700 px/s plays at 1.08.
C16_Witness ==
    /\ probe.fn = "computePlaybackRate"
    /\ probe.done
    /\ probe.category = "water"
    /\ probe.gesture = "drag"
    /\ probe.strokeSpeed = 700
    /\ probe.result = 75600

\* The reference formula of the position smoothing in 1/700,000 s.
RefSmoothing(strokeSpeed) ==
    LET raw == 50400 - 40 * RefSpeedTerm(strokeSpeed)
    IN  IF raw < 12600 THEN 12600
        ELSE IF raw > 50400 THEN 50400
        ELSE raw

\* C17: computePositionSmoothing(speed) equals
\* clamp(0.072 - clamp(speed / 700, 0, 1.3) * 0.04, 0.018, 0.072): it lies in
\* [0.018, 0.072], is 0.072 for speed <= 0, and does not grow with the
\* speed; it is the time constant updateStroke gives the panner.
C17_PositionSmoothing ==
    (probe.fn = "computePositionSmoothing" /\ probe.done)
    => /\ probe.result = RefSmoothing(probe.strokeSpeed)
       /\ 12600 <= probe.result
       /\ probe.result <= 50400
       /\ probe.strokeSpeed <= 0 => probe.result = 50400
       /\ \A v \in StrokeSpeeds :
              v >= probe.strokeSpeed
              => computePositionSmoothing(v) <= probe.result
       /\ probe.stroked.tau = probe.result

\* A stroke at 350 px/s is smoothed over 0.072 - 0.5 * 0.04 = 0.052 s.
C17_Witness ==
    /\ probe.fn = "computePositionSmoothing"
    /\ probe.done
    /\ probe.strokeSpeed = 350
    /\ probe.result = 36400
    /\ probe.stroked.tau = 36400

\* The position of a request held in x, z in [-2.5, 2.5], y in [-1.6, 1.6].
RefHeld(coordinate, bound) ==
    IF coordinate < -bound THEN -bound
    ELSE IF coordinate > bound THEN bound
    ELSE coordinate
RefPosition(x, y, z) ==
    [x |-> RefHeld(x, 25), y |-> RefHeld(y, 16), z |-> RefHeld(z, 25)]
InPositionBounds(target) ==
    /\ -25 <= target.x /\ target.x <= 25
    /\ -16 <= target.y /\ target.y <= 16
    /\ -25 <= target.z /\ target.z <= 25

\* C18: the panner target play and updateStroke apply for a requested
\* position is x and z clamped to [-2.5, 2.5] and y clamped to [-1.6, 1.6],
\* on a one-shot panner, on a new stroke panner and on the panner of a stroke
\* session that is reused; no target is outside these bounds; the target a
\* new stroke panner starts with is the origin.
C18_PositionClamp ==
    (probe.fn = "applyPannerValues" /\ probe.done)
    => /\ probe.played.target = RefPosition(probe.x, probe.y, probe.z)
       /\ probe.stroked.target = RefPosition(probe.x, probe.y, probe.z)
       /\ probe.restroked.target = RefPosition(probe.x, probe.y, probe.z)
       /\ InPositionBounds(probe.played.target)
       /\ InPositionBounds(probe.stroked.target)
       /\ InPositionBounds(probe.restroked.target)
       /\ probe.created.target = [x |-> 0, y |-> 0, z |-> 0]

\* A request at (100, -1.7, 2.6) is applied as (2.5, -1.6, 2.5).
C18_Witness ==
    /\ probe.fn = "applyPannerValues"
    /\ probe.done
    /\ probe.x = 1000 /\ probe.y = -17 /\ probe.z = 26
    /\ probe.played.target = [x |-> 25, y |-> -16, z |-> 25]
    /\ probe.restroked.target = [x |-> 25, y |-> -16, z |-> 25]
    /\ probe.created.target = [x |-> 0, y |-> 0, z |-> 0]

RefBytes(seed) ==
    <<seed % 256, (seed \div 256) % 256, (seed \div 65536) % 256,
      (seed \div 16777216) % 256>>
RefNext(s) ==
    LET c0 == 13 * s[1] + 95
        c1 == 13 * s[2] + 102 * s[1] + 243 + c0 \div 256
        c2 == 13 * s[3] + 102 * s[2] + 25 * s[1] + 110 + c1 \div 256
        c3 == 13 * s[4] + 102 * s[3] + 25 * s[2] + 60 + c2 \div 256
    IN  <<c0 % 256, c1 % 256, c2 % 256, c3 % 256>>
RECURSIVE RefState(_, _)
RefState(seed, k) ==
    IF k = 0 THEN RefBytes(seed) ELSE RefNext(RefState(seed, k - 1))
RefHalves(s) == [hi |-> s[4] * 256 + s[3], lo |-> s[2] * 256 + s[1]]

\* The values are those of the reference generator of the seed, and each is
\* in [0, 1), its numerator being below 2^32.
RefValues(seed, values) ==
    \A k \in 1..Len(values) :
        /\ values[k] = RefHalves(RefState(seed, k))
        /\ values[k].hi \in 0..65535
        /\ values[k].lo \in 0..65535

\* C20: with state_0 = seed mod 2^32 and
\* state_(k+1) = (1664525 state_k + 1013904223) mod 2^32, the k-th value a
\* generator of createRandom(seed) returns is state_k / 2^32, in [0, 1);
\* two generators of the same seed return the same sequence, and however the
\* calls of two generators are interleaved each returns the sequence of its
\* own seed.
C20_Lcg ==
    (probe.fn = "createRandom" /\ probe.done)
    => /\ RefValues(probe.seedA, probe.valuesA)
       /\ RefValues(probe.seedB, probe.valuesB)
       /\ probe.a.state = RefHalves(RefState(probe.seedA, Len(probe.valuesA)))
       /\ probe.b.state = RefHalves(RefState(probe.seedB, Len(probe.valuesB)))
       /\ probe.seedA = probe.seedB
          => \A k \in 1..Min2(Len(probe.valuesA), Len(probe.valuesB)) :
                 probe.valuesA[k] = probe.valuesB[k]
       /\ (probe.seedA = 0 /\ Len(probe.valuesA) = 3)
          => probe.valuesA = <<[hi |-> 15470, lo |-> 62303],
                               [hi |-> 18256, lo |-> 10546],
                               [hi |-> 53708, lo |-> 63209]>>

\* Seed -1 starts at 4294967295 and returns 1012239698, 806866057 and
\* 579071060 over 2^32 while a generator of seed 0 has returned 1013904223
\* over 2^32.
C20_Witness ==
    /\ probe.fn = "createRandom"
    /\ probe.done
    /\ probe.seedA = -1
    /\ probe.seedB = 0
    /\ probe.valuesA = <<[hi |-> 15445, lo |-> 36178],
                         [hi |-> 12311, lo |-> 52361],
                         [hi |-> 8835, lo |-> 60500]>>
    /\ probe.valuesB = <<[hi |-> 15470, lo |-> 62303]>>

\* Two descriptors agree in category, seed and duration.
SameSynthesisKey(s1, s2) ==
    /\ s1.category = s2.category
    /\ s1.seed = s2.seed
    /\ s1.defaultDurationSeconds = s2.defaultDurationSeconds

RefMasterGain(v) ==
    IF v < 0 THEN 0 ELSE IF v > 150 THEN 123000000 ELSE v * 820000

\* C22: setMasterGain(v) sets the target of the master gain node to
\* min(max(v, 0), 1.5), within [0, 1.5], with a 20 ms time constant; the node
\* gets its value 0.85 when it is created and keeps it; AudioMixer.initialize
\* on an initialized mixer changes nothing: the same node, neither reset nor
\* connected again, and no other node.
C22_MasterGain ==
    (probe.fn = "setMasterGain" /\ probe.done)
    => LET first == probe.first
           second == probe.second
           node == first.masterGainNode
       IN  /\ node # 0
           /\ node = first.mixerNode
           /\ first.gains[node].target = RefMasterGain(probe.gainValue)
           /\ first.gains[node].target >= 0
           /\ first.gains[node].target <= 123000000
           /\ first.gains[node].tau = 20
           /\ first.gains[node].value = 69700000
           /\ first.gains[node].out = Out("destination", first.audioContext)
           /\ probe.again = first
           /\ second.masterGainNode = node
           /\ second.mixerNode = node
           /\ Len(second.gains) = Len(first.gains)
           /\ second.gains[node].value = 69700000
           /\ second.gains[node].target = RefMasterGain(probe.nextValue)
           /\ second.gains[node].out = first.gains[node].out

\* setMasterGain(10) then setMasterGain(-1): one node at 0.85 whose target
\* was 1.5 and is now 0.
C22_Witness ==
    /\ probe.fn = "setMasterGain"
    /\ probe.done
    /\ probe.gainValue = 1000
    /\ probe.nextValue = -100
    /\ Len(probe.second.gains) = 1
    /\ probe.first.gains[1].target = 123000000
    /\ probe.second.gains[1].target = 0
    /\ probe.second.gains[1].value = 69700000

\* The node of a pool a session refers to (none for the null reference).
NodeOf(pool, i) == IF i = 0 THEN <<>> ELSE <<pool[i]>>

\* The stroke session and the ambient session with their nodes: identity,
\* connections, targets and scheduled start and stop.
StrokeView(e) ==
    <<e.activeStrokeSession,
      NodeOf(e.sources, e.activeStrokeSession.sourceNode),
      NodeOf(e.gains, e.activeStrokeSession.gainNode),
      NodeOf(e.panners, e.activeStrokeSession.pannerNode)>>
BgmView(e) ==
    <<e.activeBgmSession,
      NodeOf(e.sources, e.activeBgmSession.sourceNode),
      NodeOf(e.filters, e.activeBgmSession.filterNode),
      NodeOf(e.gains, e.activeBgmSession.gainNode)>>

\* C23: in every reachable state in which a further call is made, play
\* leaves the stroke session and the ambient session as they are (identity,
\* nodes, scheduled stop), whether it returns or throws; updateStroke and
\* endStroke leave the ambient session, setAmbientTrack and stopAmbientTrack
\* leave the stroke session, and setMasterGain leaves both.
C23_SessionIndependence ==
    calls < MaxCalls =>
    /\ \A fresh \in FreshStates(Engine) :
          /\ \A request \in PlayRequests \cup ProbeRequests :
                LET after == play(Engine, request, fresh).e
                IN  /\ StrokeView(after) = StrokeView(Engine)
                    /\ BgmView(after) = BgmView(Engine)
          /\ \A request \in StrokeRequests \cup ProbeRequests :
                BgmView(updateStroke(Engine, request, fresh).e)
                    = BgmView(Engine)
          /\ \A sound \in AmbientSounds \cup Sounds, gain \in ProbeGains :
                StrokeView(setAmbientTrack(Engine, sound, gain, fresh).e)
                    = StrokeView(Engine)
          /\ \A gain \in MasterGainValues :
                LET after == setMasterGain(Engine, gain, fresh)
                IN  /\ StrokeView(after) = StrokeView(Engine)
                    /\ BgmView(after) = BgmView(Engine)
    /\ BgmView(endStroke(Engine)) = BgmView(Engine)
    /\ StrokeView(stopAmbientTrack(Engine)) = StrokeView(Engine)

\* A stroke session and an ambient session are active and play has just
\* added a one-shot next to them.
C23_Witness ==
    /\ calls = 3
    /\ lastCall.op = "play"
    /\ ~lastCall.threw
    /\ activeStrokeSession # NoStroke
    /\ activeBgmSession # NoBgm
    /\ Len(sources) = 3
    /\ sources[activeStrokeSession.sourceNode].stopDelay < 0
    /\ sources[activeBgmSession.sourceNode].stopDelay < 0

\* clamp(g, 0, 1.2) of an ambient gain in 1/100, in 1/82,000,000.
RefAmbientGain(g) ==
    IF g < 0 THEN 0 ELSE IF g > 120 THEN 98400000 ELSE g * 820000

\* The targets of the stroke session are those of the request.
StrokeTargetsOf(e, request) ==
    LET session == e.activeStrokeSession
    IN  /\ e.gains[session.gainNode].target =
               RefGain(request.sound.defaultGain, request.intensity, "drag",
                       request.strokeSpeed)
        /\ e.sources[session.sourceNode].rateTarget =
               RefRate(request.sound.category, "drag", request.strokeSpeed)
        /\ e.panners[session.pannerNode].target =
               RefPosition(request.position.x, request.position.y,
                           request.position.z)
        /\ e.panners[session.pannerNode].tau =
               RefSmoothing(request.strokeSpeed)

\* C24: in every reachable state in which further calls are made, two
\* updateStroke calls in a row for one sound id leave one session whose gain, rate and position targets are those
\* computed from the second request, whatever the first asked for and
\* whatever session was active before; two setAmbientTrack calls in a row for
\* one sound leave one session whose gain target is the second gain clamped
\* to [0, 1.2].
C24_LastCallWins ==
    calls < MaxCalls =>
    \A fresh \in FreshStates(Engine) :
        /\ \A r1, r2 \in StrokeRequests \cup ProbeRequests :
              r1.sound.id = r2.sound.id
              => LET first == updateStroke(Engine, r1, fresh)
                     second == updateStroke(first.e, r2, "running")
                 IN  (~first.threw /\ ~second.threw)
                     => /\ StrokeTargetsOf(first.e, r1)
                        /\ second.e.activeStrokeSession
                               = first.e.activeStrokeSession
                        /\ StrokeTargetsOf(second.e, r2)
        /\ \A sound \in AmbientSounds \ {NullSound}, g1, g2 \in ProbeGains :
              LET first == setAmbientTrack(Engine, sound, g1, fresh)
                  second == setAmbientTrack(first.e, sound, g2, "running")
                  session == second.e.activeBgmSession
              IN  (~first.threw /\ ~second.threw)
                  => /\ session = first.e.activeBgmSession
                     /\ session.soundId = sound.id
                     /\ second.e.gains[session.gainNode].target
                            = RefAmbientGain(g2)

\* Three updateStroke calls for whisper-soft: the session still plays the
\* buffer rendered for the first, and its targets are those of a last request
\* of base gain 0.42, category user, speed 1200 at (-0.8, 0.3, 0.1).
C24_Witness ==
    /\ calls = 3
    /\ lastCall.op = "updateStroke"
    /\ lastCall.repeated
    /\ ~lastCall.threw
    /\ Len(sources) = 1
    /\ activeStrokeSession.soundId = "whisper-soft"
    /\ sources[1].buffer = Buffer("whisper-soft", 1)
    /\ gains[activeStrokeSession.gainNode].target
           = RefGain(42, 85, "drag", 1200)
    /\ sources[1].rateTarget = RefRate("user", "drag", 1200)
    /\ panners[activeStrokeSession.pannerNode].target
           = [x |-> -8, y |-> 3, z |-> 1]

\* The engine with its context, if any, running instead of suspended, and
\* an engine without the states of its contexts.
WhenRunning(e) ==
    IF e.audioContext = 0
      THEN e
      ELSE [e EXCEPT !.contexts[e.audioContext].state = "running"]
SansContexts(e) == [e EXCEPT !.contexts = <<>>]

\* A call made on a suspended context did what the same call does on a
\* running one, asked the context to resume and left it suspended.
AsWhenRunning(suspended, running) ==
    /\ suspended.threw = running.threw
    /\ SansContexts(suspended.e) = SansContexts(running.e)
    /\ Len(suspended.e.contexts) = Len(running.e.contexts)
    /\ suspended.e.contexts[suspended.e.audioContext].state = "suspended"
    /\ suspended.e.contexts[suspended.e.audioContext].resumeRequested

\* C25: in every reachable state in which a further call is made and the
\* context is suspended, or absent and created suspended, play, updateStroke
\* and setAmbientTrack of a sound ask the context to resume, throw only if
\* the same call throws on a running context, and leave the sessions, nodes,
\* schedules and cache that the same call leaves on a running context, with
\* the context still suspended when they return.
C25_SuspendedIsNotFatal ==
    (/\ calls < MaxCalls
     /\ audioContext # 0 => contexts[audioContext].state = "suspended")
    => /\ \A request \in PlayRequests \cup ProbeRequests :
              AsWhenRunning(play(Engine, request, "suspended"),
                            play(WhenRunning(Engine), request, "running"))
       /\ \A request \in StrokeRequests \cup ProbeRequests :
              AsWhenRunning(
                  updateStroke(Engine, request, "suspended"),
                  updateStroke(WhenRunning(Engine), request, "running"))
       /\ \A sound \in Sounds, gain \in ProbeGains :
              AsWhenRunning(
                  setAmbientTrack(Engine, sound, gain, "suspended"),
                  setAmbientTrack(WhenRunning(Engine), sound, gain,
                                  "running"))

\* updateStroke has created a session, started 3 ms from now, on a context
\* that is suspended and was asked to resume; then play has added a one-shot.
C25_Witness ==
    /\ calls = 2
    /\ lastCall.op = "play"
    /\ ~lastCall.threw
    /\ audioContext # 0
    /\ contexts[audioContext].state = "suspended"
    /\ contexts[audioContext].resumeRequested
    /\ activeStrokeSession # NoStroke
    /\ sources[activeStrokeSession.sourceNode].startDelay = 3
    /\ Len(sources) = 2
    /\ sources[2].startDelay = 4

\* C26: isReady() is true exactly when a context exists and is running, so
\* it is false on a new engine and after dispose(); resumeContext() leaves a
\* context, creating it when absent, asks for a resume exactly when the
\* context is not running, and its promise is resolved only once that resume
\* has completed: whenever a promise is resolved and its context has not been
\* closed by a dispose(), isReady() was true when it resolved.
C26_Readiness ==
    /\ isReady(Engine)
       <=> (audioContext # 0 /\ contexts[audioContext].state = "running")
    /\ calls = 0 => ~isReady(Engine)
    /\ lastCall.op = "dispose" => ~isReady(Engine)
    /\ lastCall.op = "resumeContext" => audioContext # 0
    /\ calls < MaxCalls
       => \A fresh \in FreshStates(Engine) :
              LET after == resumeContext(Engine, fresh)
                  context == after.audioContext
              IN  /\ context # 0
                  /\ audioContext # 0
                     => /\ context = audioContext
                        /\ Len(after.contexts) = Len(contexts)
                        /\ after.contexts[context].state
                               = contexts[context].state
                        /\ after.contexts[context].resumeRequested
                               = (contexts[context].resumeRequested
                                  \/ contexts[context].state # "running")
                  /\ audioContext = 0
                     => /\ context = Len(contexts) + 1
                        /\ after.contexts[context].state = fresh
                        /\ after.contexts[context].resumeRequested
                               = (fresh # "running")
    /\ \A k \in 1..Len(probe.promises) :
          LET promise == probe.promises[k]
          IN  /\ (promise.context # 0) <=> (promise.found # "running")
              /\ ~promise.resolved
                 => /\ promise.context # 0
                    /\ contexts[promise.context].state # "running"
              /\ promise.resolved => promise.ready

\* resumeContext() created a suspended context, play() was called meanwhile,
\* the resume completed and the promise resolved with isReady() true.
C26_Witness ==
    /\ Len(probe.promises) = 1
    /\ probe.promises[1].created
    /\ probe.promises[1].context = 1
    /\ probe.promises[1].resolved
    /\ probe.promises[1].ready
    /\ lastCall.op = "play"
    /\ isReady(Engine)

\* C27 as stated: setMasterGain called on an engine that holds no context
\* throws and leaves the engine without context and master gain node.
C27_ThrowsUninitialized ==
    audioContext = 0
    => \A fresh \in FreshStates(Engine), gainValue \in MasterGainValues :
           /\ mixerSetMasterGainThrows(ensureMixerReady(Engine, fresh))
           /\ setMasterGain(Engine, gainValue, fresh).audioContext = 0
           /\ setMasterGain(Engine, gainValue, fresh).masterGainNode = 0

\* The sources whose session has been torn down: endStroke or stopAmbientTrack
\* installed its handler on them.
TornDown == {s \in 1..Len(sources) : sources[s].onended.kind # "none"}

\* The connections of the three nodes of the session a handler captured, in
\* engine state e: source, gain, and panner (stroke) or filter (ambient).
SessionOuts(e, sourceNode, handler) ==
    <<e.sources[sourceNode].out, e.gains[handler.gainNode].out,
      IF handler.kind = "stroke" THEN e.panners[handler.otherNode].out
                                 ELSE e.filters[handler.otherNode].out>>

AllConnected(outs) == \A i \in 1..3 : outs[i] # NoOut
AllDisconnected(outs) == \A i \in 1..3 : outs[i] = NoOut

\* C28: endStroke() called at time t schedules the gain fade (to 0.0001,
\* time constant 0.05 s) at t and the source stop at t + 0.22 s, and
\* stopAmbientTrack() the fade (time constant 0.1 s) at t and the stop at
\* t + 0.4 s; both return with the session forgotten and its three nodes
\* still connected and the source not ended.  The nodes of a session are
\* connected while it is active and after its teardown until the ended
\* notification of its source is delivered, which happens only after the stop
\* was scheduled; once it is delivered, all three nodes are disconnected.
C28_TeardownProtocol ==
    /\ (activeStrokeSession # NoStroke /\ audioContext # 0) =>
          LET session == activeStrokeSession
              handler == Handler("stroke", session.gainNode,
                                 session.pannerNode)
              after == endStroke(Engine)
          IN  /\ after.gains[session.gainNode].target = 8200
              /\ after.gains[session.gainNode].tau = 50
              /\ after.sources[session.sourceNode].stopDelay = 220
              /\ after.sources[session.sourceNode].onended = handler
              /\ ~after.sources[session.sourceNode].ended
              /\ after.activeStrokeSession = NoStroke
              /\ AllConnected(SessionOuts(Engine, session.sourceNode, handler))
              /\ SessionOuts(after, session.sourceNode, handler)
                   = SessionOuts(Engine, session.sourceNode, handler)
    /\ (activeBgmSession # NoBgm /\ audioContext # 0) =>
          LET session == activeBgmSession
              handler == Handler("bgm", session.gainNode, session.filterNode)
              after == stopAmbientTrack(Engine)
          IN  /\ after.gains[session.gainNode].target = 8200
              /\ after.gains[session.gainNode].tau = 100
              /\ after.sources[session.sourceNode].stopDelay = 400
              /\ after.sources[session.sourceNode].onended = handler
              /\ ~after.sources[session.sourceNode].ended
              /\ after.activeBgmSession = NoBgm
              /\ AllConnected(SessionOuts(Engine, session.sourceNode, handler))
              /\ SessionOuts(after, session.sourceNode, handler)
                   = SessionOuts(Engine, session.sourceNode, handler)
    /\ \A s \in 1..Len(sources) :
          /\ sources[s].role \in {"stroke", "bgm"} /\ sources[s].out = NoOut
                => s \in TornDown /\ sources[s].ended
          /\ sources[s].ended => sources[s].stopDelay >= 0
    /\ \A s \in TornDown :
          LET handler == sources[s].onended
          IN  /\ sources[s].role = handler.kind
              /\ sources[s].stopDelay
                   = (IF handler.kind = "stroke" THEN 220 ELSE 400)
              /\ gains[handler.gainNode].target = 8200
              /\ gains[handler.gainNode].tau
                   = (IF handler.kind = "stroke" THEN 50 ELSE 100)
              /\ IF sources[s].ended
                   THEN AllDisconnected(SessionOuts(Engine, s, handler))
                   ELSE AllConnected(SessionOuts(Engine, s, handler))

\* Two sessions were torn down; the ended notification of the first one's
\* source has been delivered and its source, gain and panner are
\* disconnected, while the second, stopped and not yet ended, is connected.
C28_Witness ==
    \E s \in TornDown, other \in TornDown :
        /\ s # other
        /\ sources[s].onended.kind = "stroke"
        /\ sources[s].ended
        /\ sources[s].stopDelay = 220
        /\ AllDisconnected(SessionOuts(Engine, s, sources[s].onended))
        /\ ~sources[other].ended
        /\ AllConnected(SessionOuts(Engine, other, sources[other].onended))

\* The requests play() is checked with: those the calls are made with and a
\* one-shot of a looping sound.
OneShotRequests ==
    PlayRequests \cup {MkRequest(AmbientRain, 0, 10, -5, 100, "tap", 0)}

\* The first n nodes of a pool.
Earlier(pool, n) == SubSeq(pool, 1, n)

\* C29: a play() call that returns creates exactly one new source, started
\* 4 ms after the current time; a stop is scheduled at the current time plus
\* the sound's default duration when the sound does not loop (none when it
\* loops); neither session refers to the new source, and every source, gain,
\* panner and filter that existed before the call, the earlier one-shots
\* among them, is left exactly as it was.
C29_OneShotPlayback ==
    calls < MaxCalls =>
      \A fresh \in FreshStates(Engine), request \in OneShotRequests :
        LET r == play(Engine, request, fresh)
            n == Len(sources)
            new == r.e.sources[n + 1]
        IN  ~r.threw =>
              /\ Len(r.e.sources) = n + 1
              /\ new.role = "one-shot"
              /\ new.ctx = r.e.audioContext
              /\ new.startDelay = 4
              /\ new.stopDelay = (IF request.sound.loop THEN -1
                                  ELSE request.sound.defaultDurationSeconds)
              /\ new.loop = request.sound.loop
              /\ new.onended = NoHandler
              /\ r.e.activeStrokeSession = activeStrokeSession
              /\ r.e.activeBgmSession = activeBgmSession
              /\ r.e.activeStrokeSession.sourceNode # n + 1
              /\ r.e.activeBgmSession.sourceNode # n + 1
              /\ Earlier(r.e.sources, n) = sources
              /\ Earlier(r.e.gains, Len(gains)) = gains
              /\ Earlier(r.e.panners, Len(panners)) = panners
              /\ r.e.filters = filters

\* Three play() calls returned on one context: three one-shots overlap, each
\* started, with its own stop time, connected and held by no session.
C29_Witness ==
    /\ lastCall.op = "play"
    /\ ~lastCall.threw
    /\ Len(sources) = 3
    /\ \A s \in 1..3 :
          /\ sources[s].role = "one-shot"
          /\ sources[s].ctx = audioContext
          /\ sources[s].startDelay = 4
          /\ sources[s].stopDelay \in {800, 1800}
          /\ sources[s].out.kind = "gain"
          /\ \A other \in 1..3 :
                other # s => sources[other].out # sources[s].out
    /\ sources[1].stopDelay # sources[3].stopDelay
    /\ activeStrokeSession = NoStroke
    /\ activeBgmSession = NoBgm

\* The declared categories: the seven with a generator of their own, and
\* user.
OwnCategories ==
    {"whisper", "tapping", "scratching", "brushing", "water", "ear_cleaning",
     "ambient"}
DeclaredCategories == OwnCategories \cup {"user"}

\* The generators the samples of a rendered buffer were computed by.
FormulasOf(render) ==
    {render.samples[k].formula : k \in 1..Len(render.samples)}

\* getOrCreateBuffer on a new engine for the descriptor of a render, filed
\* under a key of the engine's cache table.
Resolved(render) ==
    getOrCreateBuffer(NewEngine, [render.sound EXCEPT !.id = "whisper-soft"])

\* C30: renderSynthBuffer throws for a category outside the eight declared
\* ones, and getOrCreateBuffer then throws and adds no cache entry; for a
\* declared category the dispatch itself never throws (only createBuffer
\* does, for a duration that is not positive).  Each of whisper, tapping,
\* scratching, brushing, water, ear_cleaning and ambient is rendered by one
\* generator that renders no other of them, and a user descriptor without
\* buffer gets exactly the samples a whisper descriptor with the same seed and
\* duration gets.
C30_SynthesisDispatch ==
    (probe.fn = "renderSynthBuffer" /\ probe.done)
    => \A i \in 1..Len(probe.renders) :
         LET first == probe.renders[i]
         IN  /\ first.sound.category \notin DeclaredCategories
                  => /\ first.threw
                     /\ first.samples = <<>>
                     /\ Resolved(first).threw
                     /\ Resolved(first).e.bufferCache = NewEngine.bufferCache
             /\ first.sound.category \in DeclaredCategories
                  => /\ first.threw = (first.sound.defaultDurationSeconds <= 0)
                     /\ ~first.threw
                          => /\ Len(first.samples) > 0
                             /\ Cardinality(FormulasOf(first)) = 1
                             /\ "none" \notin FormulasOf(first)
             /\ \A j \in 1..Len(probe.renders) :
                  LET second == probe.renders[j]
                  IN  /\ (/\ first.sound.category \in OwnCategories
                          /\ second.sound.category \in OwnCategories
                          /\ first.sound.category # second.sound.category
                          /\ ~first.threw /\ ~second.threw)
                         => FormulasOf(first) \cap FormulasOf(second) = {}
                      /\ (/\ first.sound.category = "user"
                          /\ second.sound.category = "whisper"
                          /\ first.sound.seed = second.sound.seed
                          /\ first.sound.defaultDurationSeconds
                               = second.sound.defaultDurationSeconds
                          /\ ~second.threw)
                         => /\ ~first.threw
                            /\ first.samples = second.samples

\* A user descriptor, a whisper descriptor with its seed and duration and a
\* descriptor of an undeclared category were rendered: the first two got the
\* same three samples, the third threw.
C30_Witness ==
    /\ probe.fn = "renderSynthBuffer"
    /\ probe.done
    /\ probe.sampleRate = 2
    /\ Len(probe.renders) = 3
    /\ probe.renders[1].sound.id = "user-1"
    /\ probe.renders[2].sound.id = "whisper-soft"
    /\ probe.renders[3].sound.id = "voice-1"
    /\ Len(probe.renders[1].samples) = 3
    /\ probe.renders[1].samples = probe.renders[2].samples
    /\ FormulasOf(probe.renders[1]) = {"renderWhisperBuffer"}
    /\ probe.renders[3].threw
    /\ Resolved(probe.renders[3]).e.bufferCache["whisper-soft"] = NoBuffer

\* Descriptors without buffer whose duration is zero or negative, under an
\* id that is never cached and under one that other descriptors share.
InvalidSounds ==
    {ZeroDuration,
     [ZeroDuration EXCEPT !.defaultDurationSeconds = -500],
     [ZeroDuration EXCEPT !.category = "ambient", !.loop = TRUE],
     [WhisperSoft EXCEPT !.defaultDurationSeconds = 0]}

\* A request for sound has to synthesize its buffer: none is supplied and none
\* is cached; the session calls moreover reuse a session keyed by the id.
HasToSynthesize(sound) ==
    /\ sound.audioBuffer = NoBuffer
    /\ bufferCache[sound.id] = NoBuffer

\* The sources that have been started.
Started(e) == {s \in 1..Len(e.sources) : e.sources[s].startDelay >= 0}

\* What a failed request leaves: no source created or started, no cache
\* entry for the id.
NothingStartedFor(e, sound) ==
    /\ Len(e.sources) = Len(sources)
    /\ Started(e) = Started(Engine)
    /\ e.bufferCache[sound.id] = NoBuffer

\* C31: a play, updateStroke or setAmbientTrack request that has to
\* synthesize the buffer of a sound whose default duration is <= 0 throws; it
\* creates and starts no source, leaves no stroke or ambient session keyed by
\* the sound's id and no cache entry for it, and the same request made again
\* throws again.
C31_InvalidDurationIsFatal ==
    calls < MaxCalls =>
      \A fresh \in FreshStates(Engine), sound \in InvalidSounds :
        HasToSynthesize(sound) =>
          LET request == MkRequest(sound, 5, 0, 2, 100, "drag", 300)
              played == play(Engine, request, fresh)
              stroked == updateStroke(Engine, request, fresh)
              ambient == setAmbientTrack(Engine, sound, 33, fresh)
          IN  /\ played.threw
              /\ NothingStartedFor(played.e, sound)
              /\ played.e.activeStrokeSession = activeStrokeSession
              /\ played.e.activeBgmSession = activeBgmSession
              /\ play(played.e, request, "running").threw
              /\ activeStrokeSession.soundId # sound.id =>
                    /\ stroked.threw
                    /\ NothingStartedFor(stroked.e, sound)
                    /\ stroked.e.activeStrokeSession = NoStroke
                    /\ stroked.e.activeBgmSession = activeBgmSession
                    /\ updateStroke(stroked.e, request, "running").threw
              /\ activeBgmSession.soundId # sound.id =>
                    /\ ambient.threw
                    /\ NothingStartedFor(ambient.e, sound)
                    /\ ambient.e.activeBgmSession = NoBgm
                    /\ ambient.e.activeStrokeSession = activeStrokeSession
                    /\ setAmbientTrack(ambient.e, sound, 33, "running").threw

\* play() was called twice in a row for the sound of duration 0 and threw:
\* the one-shot started before is still the only source, and the cache has
\* no entry for the id.
C31_Witness ==
    /\ lastCall.op = "play"
    /\ lastCall.id = "zero-duration"
    /\ lastCall.threw
    /\ lastCall.repeated
    /\ calls = 3
    /\ Len(sources) = 1
    /\ sources[1].buffer = Buffer("whisper-soft", 1)
    /\ bufferCache["zero-duration"] = NoBuffer
    /\ synthCalls["zero-duration"] = 2

\* C32: AudioMixer.setMasterGain throws and changes nothing when called
\* before initialize() and when called after dispose(); dispose() disconnects
\* and forgets the node, and the initialize(context) that follows creates
\* another node, at gain 0.85 with nothing scheduled, connected to the
\* destination of the context it is given, and leaves the disposed node
\* disconnected.
C32_MixerLifecycle ==
    (probe.fn = "AudioMixer" /\ probe.done)
    => LET old == probe.first.mixerNode
           node == probe.second.mixerNode
       IN  /\ probe.earlyThrew
           /\ probe.early = probe.new
           /\ old # 0
           /\ probe.first.gains[old].out = Out("destination", probe.context)
           /\ probe.disposed.mixerNode = 0
           /\ probe.disposed.gains[old].out = NoOut
           /\ probe.lateThrew
           /\ probe.late = probe.disposed
           /\ node # 0
           /\ node # old
           /\ Len(probe.second.gains) = Len(probe.disposed.gains) + 1
           /\ probe.second.gains[node].ctx = probe.nextContext
           /\ probe.second.gains[node].value = 69700000
           /\ probe.second.gains[node].target = -1
           /\ probe.second.gains[node].out
                = Out("destination", probe.nextContext)
           /\ probe.second.gains[old] = probe.disposed.gains[old]

\* A mixer initialized with context 1, disposed and initialized with context
\* 2: setMasterGain(1.2) threw before and between, node 1 is disconnected,
\* node 2 is at 0.85 and connected to the destination of context 2.
C32_Witness ==
    /\ probe.fn = "AudioMixer"
    /\ probe.done
    /\ probe.gainValue = 120
    /\ probe.context = 1
    /\ probe.nextContext = 2
    /\ probe.earlyThrew
    /\ probe.lateThrew
    /\ probe.second.mixerNode = 2
    /\ probe.second.gains[1].out = NoOut
    /\ probe.second.gains[1].target = -1
    /\ probe.second.gains[2].value = 69700000
    /\ probe.second.gains[2].out = Out("destination", 2)

\* C33: when a call of decodeToAudioBuffer has settled, the temporary context
\* it constructed, if any, has had close() called once and is closed, after a
\* successful decode and after a failed one; a call whose decodeAudioData
\* failed is rejected with the decoding error, one whose decodeAudioData
\* succeeded is resolved; and every temporary context belongs to exactly one
\* call.
C33_DecodeCleanup ==
    probe.fn = "decodeToAudioBuffer" =>
      /\ \A i \in 1..Len(probe.decodes) :
            LET decode == probe.decodes[i]
            IN  decode.pc = "settled" =>
                  /\ decode.settled \in {"resolved", "rejected"}
                  /\ decode.context # 0 =>
                        /\ probe.contexts[decode.context].state = "closed"
                        /\ probe.contexts[decode.context].closeCalls = 1
                        /\ decode.decoded \in {"buffer", "error"}
                  /\ decode.decoded = "error" =>
                        /\ decode.settled = "rejected"
                        /\ decode.error = "decode"
                  /\ decode.decoded = "buffer" => decode.settled = "resolved"
                  /\ decode.settled = "resolved" =>
                        decode.blob = "audio" /\ decode.context # 0
      /\ \A c \in 1..Len(probe.contexts) :
            Cardinality({i \in 1..Len(probe.decodes) :
                            probe.decodes[i].context = c}) = 1

\* Two calls have settled, one resolved with its buffer and one rejected with
\* the decoding error, each with its own context closed, while a third is
\* still decoding on an open context.
C33_Witness ==
    /\ probe.fn = "decodeToAudioBuffer"
    /\ Len(probe.decodes) = 3
    /\ probe.decodes[1].settled = "resolved"
    /\ probe.decodes[2].settled = "rejected"
    /\ probe.decodes[2].error = "decode"
    /\ probe.decodes[1].context # probe.decodes[2].context
    /\ probe.contexts[probe.decodes[1].context].state = "closed"
    /\ probe.contexts[probe.decodes[2].context].state = "closed"
    /\ probe.decodes[3].pc = "decodeAudioData"
    /\ probe.contexts[probe.decodes[3].context].state = "running"

\* C34: in every reachable state the engine's master gain reference is null
\* exactly when its context reference is null, and it is the node the mixer
\* holds, a connected node of the current context; an active stroke or
\* ambient session exists only while a context exists and its three nodes
\* belong to that context, so that endStroke() and stopAmbientTrack() stop
\* the source of every live session.
C34_LifecycleInvariant ==
    /\ (masterGainNode = 0) <=> (audioContext = 0)
    /\ masterGainNode = mixerNode
    /\ masterGainNode # 0 =>
          /\ gains[masterGainNode].ctx = audioContext
          /\ gains[masterGainNode].out = Out("destination", audioContext)
    /\ activeStrokeSession # NoStroke =>
          /\ audioContext # 0
          /\ sources[activeStrokeSession.sourceNode].ctx = audioContext
          /\ gains[activeStrokeSession.gainNode].ctx = audioContext
          /\ panners[activeStrokeSession.pannerNode].ctx = audioContext
          /\ endStroke(Engine).activeStrokeSession = NoStroke
          /\ endStroke(Engine).sources[activeStrokeSession.sourceNode]
                 .stopDelay >= 0
    /\ activeBgmSession # NoBgm =>
          /\ audioContext # 0
          /\ sources[activeBgmSession.sourceNode].ctx = audioContext
          /\ gains[activeBgmSession.gainNode].ctx = audioContext
          /\ filters[activeBgmSession.filterNode].ctx = audioContext
          /\ stopAmbientTrack(Engine).activeBgmSession = NoBgm
          /\ stopAmbientTrack(Engine).sources[activeBgmSession.sourceNode]
                 .stopDelay >= 0

\* A stroke session was started, the engine disposed, and a stroke session
\* started again: the engine holds the second context with a master node and
\* a session of that context, and the first session's source is stopped.
C34_Witness ==
    /\ lastCall.op = "updateStroke"
    /\ lastCall.disposed
    /\ audioContext = 2
    /\ contexts[1].state = "closed"
    /\ masterGainNode # 0
    /\ gains[masterGainNode].ctx = 2
    /\ activeStrokeSession # NoStroke
    /\ sources[activeStrokeSession.sourceNode].ctx = 2
    /\ \E s \in 1..Len(sources) :
          sources[s].ctx = 1 /\ sources[s].stopDelay = 220

\* The sources of a role that are started and have no stop scheduled.
Playing(e, role) ==
    {s \in 1..Len(e.sources) :
        /\ e.sources[s].role = role
        /\ e.sources[s].startDelay >= 0
        /\ e.sources[s].stopDelay < 0}

\* C35: when updateStroke is called with a sound id other than the active
\* stroke session's and resolving the buffer of the new sound (none supplied,
\* none cached, duration or category invalid) throws, the
\* call throws with the previous session torn down (faded, stopped 220 ms
\* from now, forgotten): no stroke session is active, no source was created
\* or started for the new id, the cache has no entry for it, and the ambient
\* session is as it was.  The same holds of setAmbientTrack and the ambient
\* session (stopped 400 ms from now), the stroke session being as it was.
C35_FailedSessionSwitch ==
    /\ (lastCall.threw /\ lastCall.op = "updateStroke") =>
          /\ activeStrokeSession = NoStroke
          /\ Playing(Engine, "stroke") = {}
          /\ bufferCache[lastCall.id] = NoBuffer
    /\ (lastCall.threw /\ lastCall.op = "setAmbientTrack") =>
          /\ activeBgmSession = NoBgm
          /\ Playing(Engine, "bgm") = {}
          /\ bufferCache[lastCall.id] = NoBuffer
    /\ calls < MaxCalls =>
         \A fresh \in FreshStates(Engine), sound \in FailingSounds :
           LET request == MkRequest(sound, 5, 0, 2, 85, "drag", 420)
               stroked == updateStroke(Engine, request, fresh)
               ambient == setAmbientTrack(Engine, sound, 33, fresh)
           IN  /\ (/\ activeStrokeSession # NoStroke
                   /\ activeStrokeSession.soundId # sound.id
                   /\ HasToSynthesize(sound)) =>
                     /\ stroked.threw
                     /\ stroked.e.activeStrokeSession = NoStroke
                     /\ stroked.e.sources[activeStrokeSession.sourceNode]
                            .stopDelay = 220
                     /\ stroked.e.gains[activeStrokeSession.gainNode].target
                            = 8200
                     /\ Len(stroked.e.sources) = Len(sources)
                     /\ stroked.e.bufferCache = bufferCache
                     /\ stroked.e.bufferCache[sound.id] = NoBuffer
                     /\ stroked.e.activeBgmSession = activeBgmSession
               /\ (/\ activeBgmSession # NoBgm
                   /\ activeBgmSession.soundId # sound.id
                   /\ HasToSynthesize(sound)) =>
                     /\ ambient.threw
                     /\ ambient.e.activeBgmSession = NoBgm
                     /\ ambient.e.sources[activeBgmSession.sourceNode]
                            .stopDelay = 400
                     /\ ambient.e.gains[activeBgmSession.gainNode].target
                            = 8200
                     /\ Len(ambient.e.sources) = Len(sources)
                     /\ ambient.e.bufferCache = bufferCache
                     /\ ambient.e.bufferCache[sound.id] = NoBuffer
                     /\ ambient.e.activeStrokeSession = activeStrokeSession

\* A stroke session for scratch-gentle was active when updateStroke was
\* called for the zero-duration sound and threw: the one stroke source there
\* is has its stop scheduled and no stroke session is active.
C35_Witness ==
    /\ lastCall.op = "updateStroke"
    /\ lastCall.id = "zero-duration"
    /\ lastCall.threw
    /\ calls = 2
    /\ Len(sources) = 1
    /\ sources[1].role = "stroke"
    /\ sources[1].buffer = Buffer("scratch-gentle", 1)
    /\ sources[1].stopDelay = 220
    /\ sources[1].onended.kind = "stroke"
    /\ activeStrokeSession = NoStroke
    /\ bufferCache["zero-duration"] = NoBuffer

\* The looping sources play() has started.
LoopingOneShots ==
    {s \in 1..Len(sources) : sources[s].role = "one-shot" /\ sources[s].loop}

\* Source s is connected through its gain and its panner to a master gain
\* node.
ChainIntact(s) ==
    /\ sources[s].out.kind = "gain"
    /\ gains[sources[s].out.id].out.kind = "panner"
    /\ panners[gains[sources[s].out.id].out.id].out.kind = "gain"

\* C36: a source play() started for a sound whose loop flag is true has no
\* stop scheduled, gets no ended notification and stays connected through
\* its gain and panner, whatever facade calls follow (play, updateStroke,
\* endStroke, setAmbientTrack, stopAmbientTrack); its context is closed only
\* by dispose().  Every source started for a stroke or an ambient session,
\* other than that of the session now active, has its stop scheduled (220 ms
\* and 400 ms after the end or switch), and after dispose() no session is
\* left on the closed context.
C36_LoopingOneShot ==
    /\ \A s \in LoopingOneShots :
          /\ sources[s].startDelay = 4
          /\ sources[s].stopDelay = -1
          /\ ~sources[s].ended
          /\ sources[s].onended = NoHandler
          /\ ChainIntact(s)
          /\ contexts[sources[s].ctx].state = "closed"
                => /\ lastCall.disposed
                   /\ sources[s].ctx # audioContext
          /\ sources[s].ctx # audioContext
                => contexts[sources[s].ctx].state = "closed"
    /\ \A s \in 1..Len(sources) :
          /\ (sources[s].role = "stroke"
              /\ s # activeStrokeSession.sourceNode)
                => sources[s].stopDelay = 220
          /\ (sources[s].role = "bgm" /\ s # activeBgmSession.sourceNode)
                => sources[s].stopDelay = 400
          /\ (sources[s].role \in {"stroke", "bgm"}
              /\ contexts[sources[s].ctx].state = "closed")
                => sources[s].stopDelay >= 0

\* A looping one-shot was started, a stroke session started and ended, and
\* the ended notification of the stroke source delivered: the stroke source
\* is stopped and disconnected, the one-shot plays on, connected, with no
\* stop scheduled.
C36_Witness ==
    /\ calls = 3
    /\ lastCall.op = "endStroke"
    /\ Len(sources) = 2
    /\ sources[1].role = "one-shot"
    /\ sources[1].loop
    /\ sources[1].stopDelay = -1
    /\ ChainIntact(1)
    /\ contexts[sources[1].ctx].state = "running"
    /\ sources[2].role = "stroke"
    /\ sources[2].stopDelay = 220
    /\ sources[2].ended
    /\ sources[2].out = NoOut

\* C37: in the application's wiring, once gesture end has been delivered
\* (pointer up or cancel, which calls endStroke) and until the next drag
\* trigger is delivered, the engine holds no active stroke session, also
\* when a playInteractionSound call that awaited resumeContext() runs on
\* after the gesture end.
C37_NoStrokeAfterGestureEnd ==
    (probe.fn = "App" /\ probe.gestureEnded)
        => activeStrokeSession = NoStroke

\* The acquired streams whose tracks are not stopped and the MediaRecorders
\* that record.
LiveStreams ==
    {s \in 1..Len(probe.streams) : probe.streams[s].live}
Recording ==
    {m \in 1..Len(probe.recorders) : probe.recorders[m].state = "recording"}

\* C38: at any time at most one acquired media stream has tracks that are
\* not stopped; and once stop(), cancel() or dispose() has returned, with no
\* start() called since and no start() or stop() call pending, every stream
\* acquired has had its tracks stopped and no MediaRecorder records, also
\* when start() calls overlap or cancel()/dispose() runs while a start()
\* awaits microphone access.
C38_RecorderResourceSafety ==
    probe.fn = "Recorder" =>
      /\ Cardinality(LiveStreams) <= 1
      /\ (probe.tornDown /\ probe.starts = 0 /\ probe.stops = <<>>)
            => LiveStreams = {} /\ Recording = {}

====
